---------------------------- MODULE Spec2Model ----------------------------
(***************************************************************************)
(* A model of pybot-dspin: the register value codec (defs.py), the command *)
(* model (commands.py), the single-device driver (core.py) and the         *)
(* daisy-chain framer (daisychain.py).                                     *)
(*                                                                         *)
(* Python values are represented as follows.                               *)
(*   - a list of bytes is a sequence of naturals;                          *)
(*   - an optional value (None or x) is the sequence <<>> or <<x>>;        *)
(*   - a slot of a request list is a record [kind, bytes, name]: kind      *)
(*     "none" is None, "list" a list owned by the caller (bytes), "const"  *)
(*     a reference to one of the module-level request lists of             *)
(*     commands.py (name), "cmd" a command object that was not rendered.   *)
(***************************************************************************)
EXTENDS Integers, Sequences, FiniteSets, TLC

VARIABLES
    chainLength,  \* DaisyChain._chain_length, fixed at construction
    fakeGpio,     \* TRUE when the GPIO module is fake_gpio (it has FAKE)
    consts,       \* the module-level request lists of commands.py
    pc,           \* "idle": no call is recorded; "wait": the call is inside
                  \* wait_for_move_complete; "done": the call has returned
    op,           \* the latest call: its name and its arguments
    outcome,      \* "none", "ok" or the exception the call raised
    bus,          \* the transport calls of the latest call, in order
    requests,     \* the request list of the latest chain transfer, afterwards
    result,       \* what the latest call returned
    waitCb,       \* whether the pending wait was given a callback
    polls,        \* samples of the busy pin taken by the pending wait
    cbCalls,      \* invocations of the callback by the pending wait
    samples,      \* what the wait of the latest call read on the busy pin
    gpio          \* the calls of the GPIO module and of the SPI device's open
                  \* by the latest call, in order, each with the number of
                  \* transport calls made before it

vars ==
    <<chainLength, fakeGpio, consts, pc, op, outcome, bus, requests, result,
      waitCb, polls, cbCalls, samples, gpio>>

----------------------------------------------------------------------------
(* Bounds of the model *)

\* the shortest chain the constructor accepts is 2; the longest one modelled
MaxChain == 4
\* how far around each boundary of a register's range the values are drawn
EdgeWidth == 2
\* the number of asserted samples of the busy pin a wait may see
MaxPolls == 2

\* the greatest size a SimpleCommand or a Nop is constructed with
MaxFrame == 4

----------------------------------------------------------------------------
(* Integer helpers: Python's operators on (unbounded) integers *)

Min(a, b) ==
    IF a <= b THEN a ELSE b

Abs(a) ==
    IF a < 0 THEN -a ELSE a

RECURSIVE AndNat(_, _)
AndNat(a, b) ==
    IF a = 0 \/ b = 0
    THEN 0
    ELSE (a % 2) * (b % 2) + 2 * AndNat(a \div 2, b \div 2)

\* a & b for any integer a and b >= 0: a negative a is ~(-a - 1) in two's
\* complement, and ~n & b clears in b the bits of n
BitAnd(a, b) ==
    IF a >= 0 THEN AndNat(a, b) ELSE b - AndNat(-a - 1, b)

\* a & b where the code has a | b
BitOr_and(a, b) ==
    BitAnd(a, b)

RECURSIVE BitOr(_, _)
BitOr(a, b) ==
    IF a = 0 THEN b
    ELSE IF b = 0 THEN a
    ELSE (IF a % 2 = 1 \/ b % 2 = 1 THEN 1 ELSE 0) + 2 * BitOr(a \div 2, b \div 2)

\* a >> n (floor division, also for a negative a)
ShiftRight(a, n) ==
    a \div (2 ^ n)

\* 0xffffffff >> n for 0 <= n <= 32, that is 32 - n one bits
Ones32ShiftRight(n) ==
    (2 ^ (32 - n)) - 1

Zeros(n) ==
    [i \in 1..n |-> 0]

----------------------------------------------------------------------------
(* defs.py: the register catalog *)

RegisterDefinition(name, addr, size, signed, reset_value, read_only) ==
    [name |-> name, addr |-> addr, size |-> size, signed |-> signed,
     reset_value |-> reset_value, read_only |-> read_only]

ABS_POS == RegisterDefinition("ABS_POS", 1, 22, TRUE, 0, FALSE)
EL_POS == RegisterDefinition("EL_POS", 2, 9, FALSE, 0, FALSE)
MARK == RegisterDefinition("MARK", 3, 22, FALSE, 0, FALSE)
SPEED == RegisterDefinition("SPEED", 4, 20, FALSE, 0, TRUE)
ACC == RegisterDefinition("ACC", 5, 12, FALSE, 138, FALSE)
DEC == RegisterDefinition("DEC", 6, 12, FALSE, 138, FALSE)
MAX_SPEED == RegisterDefinition("MAX_SPEED", 7, 10, FALSE, 65, FALSE)
MIN_SPEED == RegisterDefinition("MIN_SPEED", 8, 13, FALSE, 0, FALSE)
FS_SPD == RegisterDefinition("FS_SPD", 21, 10, FALSE, 39, FALSE)
KVAL_HOLD == RegisterDefinition("KVAL_HOLD", 9, 8, FALSE, 41, FALSE)
KVAL_RUN == RegisterDefinition("KVAL_RUN", 10, 8, FALSE, 41, FALSE)
KVAL_ACC == RegisterDefinition("KVAL_ACC", 11, 8, FALSE, 41, FALSE)
KVAL_DEC == RegisterDefinition("KVAL_DEC", 12, 8, FALSE, 41, FALSE)
INT_SPD == RegisterDefinition("INT_SPD", 13, 14, FALSE, 1032, FALSE)
ST_SLP == RegisterDefinition("ST_SLP", 14, 8, FALSE, 25, FALSE)
FN_SLP_ACC == RegisterDefinition("FN_SLP_ACC", 15, 8, FALSE, 41, FALSE)
FN_SLP_DEC == RegisterDefinition("FN_SLP_DEC", 16, 8, FALSE, 41, FALSE)
K_THERM == RegisterDefinition("K_THERM", 17, 4, FALSE, 0, FALSE)
ADC_OUT == RegisterDefinition("ADC_OUT", 18, 5, FALSE, 0, TRUE)
OCD_TH == RegisterDefinition("OCD_TH", 19, 4, FALSE, 8, FALSE)
STALL_TH == RegisterDefinition("STALL_TH", 20, 7, FALSE, 64, FALSE)
STEP_MODE == RegisterDefinition("STEP_MODE", 22, 8, FALSE, 7, FALSE)
ALARM_EN == RegisterDefinition("ALARM_EN", 23, 8, FALSE, 255, FALSE)
CONFIG == RegisterDefinition("CONFIG", 24, 16, FALSE, 11912, FALSE)
STATUS == RegisterDefinition("STATUS", 25, 16, FALSE, 0, TRUE)

\* every register descriptor of the class Register
Registers ==
    {ABS_POS, EL_POS, MARK, SPEED, ACC, DEC, MAX_SPEED, MIN_SPEED, FS_SPD,
     KVAL_HOLD, KVAL_RUN, KVAL_ACC, KVAL_DEC, INT_SPD, ST_SLP, FN_SLP_ACC,
     FN_SLP_DEC, K_THERM, ADC_OUT, OCD_TH, STALL_TH, STEP_MODE, ALARM_EN,
     CONFIG, STATUS}

----------------------------------------------------------------------------
(* defs.py: Register.value_as_bytes, and core.py: parse_register_reply *)

\* bytes_cnt = (size >> 3) + (1 if size & 7 else 0)
BytesCnt(reg) ==
    ShiftRight(reg.size, 3) + (IF BitAnd(reg.size, 7) # 0 THEN 1 ELSE 0)

\* the loop of value_as_bytes: result[bytes_cnt - i - 1] = value & 0xff;
\* value >>= 8, for i = 0 .. bytes_cnt - 1
RECURSIVE FillBytes(_, _, _, _)
FillBytes(res, value, i, bytes_cnt) ==
    IF i >= bytes_cnt
    THEN res
    ELSE FillBytes([res EXCEPT ![bytes_cnt - i] = BitAnd(value, 255)],
                   ShiftRight(value, 8), i + 1, bytes_cnt)

\* value_as_bytes with the mask of whole bytes instead of the size in bits
value_as_bytes_bytemask(reg, value) ==
    LET bytes_cnt == BytesCnt(reg)
    IN  IF value = 0
        THEN Zeros(bytes_cnt)
        ELSE FillBytes(Zeros(bytes_cnt),
                       BitAnd(value, Ones32ShiftRight(32 - 8 * bytes_cnt)),
                       0, bytes_cnt)

value_as_bytes(reg, value) ==
    LET bytes_cnt == BytesCnt(reg)
        result0 == Zeros(bytes_cnt)
        mask == Ones32ShiftRight(32 - reg.size)
    IN  IF value = 0
        THEN result0
        ELSE FillBytes(result0, BitAnd(value, mask), 0, bytes_cnt)

\* reduce(lambda a, b: (a << 8) | b, value_bytes); a TypeError on an empty
\* list is not modelled: the callers pass at least one byte
RECURSIVE ReduceBytes(_, _)
ReduceBytes(acc, bytes) ==
    IF bytes = <<>>
    THEN acc
    ELSE ReduceBytes(BitOr(acc * 256, Head(bytes)), Tail(bytes))

\* parse_register_reply without the interpretation of the sign bit
parse_register_reply_unsigned(reg, value_bytes) ==
    BitAnd(ReduceBytes(Head(value_bytes), Tail(value_bytes)),
           Ones32ShiftRight(32 - reg.size))

parse_register_reply(reg, value_bytes) ==
    LET mask == Ones32ShiftRight(32 - reg.size)
        raw_value == BitAnd(ReduceBytes(Head(value_bytes), Tail(value_bytes)), mask)
    IN  IF reg.signed /\ BitAnd(raw_value, 2 ^ (reg.size - 1)) # 0
        THEN raw_value - 2 ^ reg.size
        ELSE raw_value

----------------------------------------------------------------------------
(* The values offered to the codec: around every boundary of the register's
   range, inside and outside it, and the two values of the scenarios *)

Around(c) ==
    (c - EdgeWidth)..(c + EdgeWidth)

CodecValues(reg) ==
    Around(0) \cup Around(2 ^ (reg.size - 1)) \cup Around(2 ^ reg.size)
        \cup Around(-(2 ^ (reg.size - 1))) \cup Around(-(2 ^ reg.size))
        \cup {500, -5, 255, 256, 257}

\* the register's range: 0 .. 2^size - 1, or the two's complement range
InRange(reg, v) ==
    IF reg.signed
    THEN -(2 ^ (reg.size - 1)) <= v /\ v <= 2 ^ (reg.size - 1) - 1
    ELSE 0 <= v /\ v <= 2 ^ reg.size - 1

----------------------------------------------------------------------------
(* defs.py: the speed conversion used by the Run and GoUntil requests *)

\* the inputs up to the saturation point for which the double product
\* abs(x) * 67.106 rounds to just below the exact (integer) product
SpdCalcRoundedDown ==
    {1500, 3000, 3500, 5500, 6000, 6500, 7000, 7500, 11000, 11500, 12000,
     12500, 13000, 13500, 14000, 14500, 15000, 15500}

\* min(int(abs(steps_per_sec) * 67.106), 0x0fffff); from 15626 steps/s on
\* the product exceeds 0x0fffff
spd_calc(steps_per_sec) ==
    LET a == Abs(steps_per_sec)
    IN  IF a >= 15626
        THEN 1048575
        ELSE Min(((a * 67106) \div 1000)
                    - (IF a \in SpdCalcRoundedDown THEN 1 ELSE 0),
                 1048575)

\* int(a * (whole + milli / 1000 + micro / 1000000)) for an integer a >= 0:
\* the integer part of the product, which the double product yields for
\* the scales of acc_calc, max_spd_calc, min_spd_calc and int_spd_calc
FloorTimes(a, whole, milli, micro) ==
    a * whole + ((a * milli + ((a * micro) \div 1000)) \div 1000)

\* min(int(abs(steps_per_sec_per_sec) * 0.137438), 0x0fff)
acc_calc(steps_per_sec_per_sec) ==
    Min(FloorTimes(Abs(steps_per_sec_per_sec), 0, 137, 438), 4095)

\* dec_calc = acc_calc
dec_calc(steps_per_sec_per_sec) ==
    acc_calc(steps_per_sec_per_sec)

\* min(int(abs(steps_per_sec) * 0.065536), 0x03ff)
max_spd_calc(steps_per_sec) ==
    Min(FloorTimes(Abs(steps_per_sec), 0, 65, 536), 1023)

\* the variant of min_spd_calc that clamps to the 13 bits of the register
min_spd_calc_13bits(steps_per_sec) ==
    Min(FloorTimes(Abs(steps_per_sec), 4, 194, 300), 8191)

\* min(int(abs(steps_per_sec) * 4.1943), 0x0fff)
min_spd_calc(steps_per_sec) ==
    Min(FloorTimes(Abs(steps_per_sec), 4, 194, 300), 4095)

\* min(int(abs(steps_per_sec) * .065536 - 0.5), 0x03ff): int() truncates
\* towards zero, so a difference between -0.5 and 0 gives 0; twice the
\* difference is the product of 2 * abs(steps_per_sec) minus 1
fs_spd_calc(steps_per_sec) ==
    LET twice == FloorTimes(2 * Abs(steps_per_sec), 0, 65, 536) - 1
    IN  Min(IF twice < 0 THEN 0 ELSE twice \div 2, 1023)

\* min(int(abs(steps_per_sec) * 4.1943), 0x3fff)
int_spd_calc(steps_per_sec) ==
    Min(FloorTimes(Abs(steps_per_sec), 4, 194, 300), 16383)

\* the conversion functions of defs.py, by name
Calc(name, physical) ==
    CASE name = "acc_calc" -> acc_calc(physical)
      [] name = "dec_calc" -> dec_calc(physical)
      [] name = "max_spd_calc" -> max_spd_calc(physical)
      [] name = "min_spd_calc" -> min_spd_calc(physical)
      [] name = "fs_spd_calc" -> fs_spd_calc(physical)
      [] name = "int_spd_calc" -> int_spd_calc(physical)
      [] name = "spd_calc" -> spd_calc(physical)

Conversions ==
    {"acc_calc", "dec_calc", "max_spd_calc", "min_spd_calc", "fs_spd_calc",
     "int_spd_calc", "spd_calc"}

Direction ==
    [REV |-> 0, FWD |-> 1]

GoUntilAction ==
    [RESET |-> 0, COPY |-> 8]

----------------------------------------------------------------------------
(* commands.py: the command model *)

OpCodes ==
    [NOP |-> 0, SET_PARAM |-> 0, GET_PARAM |-> 32, RUN |-> 80,
     STEP_CLOCK |-> 88, MOVE |-> 64, GOTO |-> 96, GOTO_DIR |-> 104,
     GO_UNTIL |-> 130, RELEASE_SW |-> 146, GO_HOME |-> 112, GO_MARK |-> 120,
     RESET_POS |-> 216, RESET_DEVICE |-> 192, SOFT_STOP |-> 176,
     HARD_STOP |-> 184, SOFT_HIZ |-> 160, HARD_HIZ |-> 168,
     GET_STATUS |-> 208]

\* OpCodes._all
AllOpCodes ==
    {OpCodes[n] : n \in DOMAIN OpCodes}

\* SpeedCommandMixin.MAX_VALUE
MAX_VALUE == 4194303

\* what a constructor yields: the exception it raised, or the command
Raised(e) ==
    [err |-> e, cmd |-> [cls |-> "none"]]

Made(c) ==
    [err |-> "", cmd |-> c]

\* the direction setter accepts any value
DirectionAccepted_any(value) ==
    TRUE

\* DirectionCommandMixin.direction setter: value in (FWD, REV)
DirectionAccepted(value) ==
    value \in {Direction.FWD, Direction.REV}

\* SpeedCommandMixin.speed setter: 0 < value <= MAX_VALUE
SpeedAccepted(value) ==
    0 < value /\ value <= MAX_VALUE

\* ActionCommandMixin.action setter: value in (COPY, RESET)
ActionAccepted(value) ==
    value \in {GoUntilAction.COPY, GoUntilAction.RESET}

SimpleCommand(opcode, size) ==
    IF opcode \notin AllOpCodes THEN Raised("ValueError")
    ELSE IF size < 0 THEN Raised("ValueError")
    ELSE Made([cls |-> "SimpleCommand", opcode |-> opcode,
               padding |-> [i \in 1..(size - 1) |-> OpCodes.NOP]])

Nop(size) ==
    SimpleCommand(OpCodes.NOP, size)

SetParam(reg, value) ==
    Made([cls |-> "SetParam", reg |-> reg, value |-> value])

\* a GetParam that is rendered as the SetParam of 0
GetParam_asSet(reg) ==
    Made([cls |-> "SetParam", reg |-> reg, value |-> 0])

GetParam(reg) ==
    Made([cls |-> "GetParam", reg |-> reg])

Run(direction, steps_per_sec) ==
    IF ~DirectionAccepted(direction) THEN Raised("ValueError")
    ELSE IF ~SpeedAccepted(steps_per_sec) THEN Raised("ValueError")
    ELSE Made([cls |-> "Run", dir |-> direction, speed |-> steps_per_sec])

StepClock(direction) ==
    IF ~DirectionAccepted(direction) THEN Raised("ValueError")
    ELSE Made([cls |-> "StepClock", dir |-> direction])

Move(direction, steps) ==
    IF ~DirectionAccepted(direction) THEN Raised("ValueError")
    ELSE Made([cls |-> "Move", dir |-> direction, steps |-> Abs(steps)])

GoTo(position) ==
    Made([cls |-> "GoTo", pos |-> position])

GoToDir(direction, position) ==
    IF ~DirectionAccepted(direction) THEN Raised("ValueError")
    ELSE Made([cls |-> "GoToDir", dir |-> direction, pos |-> position])

GoUntil(action, direction, steps_per_sec) ==
    IF ~ActionAccepted(action) THEN Raised("ValueError")
    ELSE IF ~DirectionAccepted(direction) THEN Raised("ValueError")
    ELSE IF ~SpeedAccepted(steps_per_sec) THEN Raised("ValueError")
    ELSE Made([cls |-> "GoUntil", action |-> action, dir |-> direction,
               speed |-> steps_per_sec])

ReleaseSW(action, direction) ==
    IF ~ActionAccepted(action) THEN Raised("ValueError")
    ELSE IF ~DirectionAccepted(direction) THEN Raised("ValueError")
    ELSE Made([cls |-> "ReleaseSW", action |-> action, dir |-> direction])

\* Command.as_request of every command class
as_request(cmd) ==
    CASE cmd.cls = "SimpleCommand" ->
            <<cmd.opcode>> \o cmd.padding
      [] cmd.cls = "SetParam" ->
            <<BitOr(OpCodes.SET_PARAM, cmd.reg.addr)>>
                \o value_as_bytes(cmd.reg, cmd.value)
      [] cmd.cls = "GetParam" ->
            <<BitOr(OpCodes.GET_PARAM, cmd.reg.addr)>>
                \o value_as_bytes(cmd.reg, 0)
      [] cmd.cls = "Run" ->
            <<BitOr(OpCodes.RUN, cmd.dir)>>
                \o value_as_bytes(SPEED, spd_calc(cmd.speed))
      [] cmd.cls = "StepClock" ->
            <<BitOr(OpCodes.RUN, cmd.dir)>>
      [] cmd.cls = "Move" ->
            <<BitOr(OpCodes.MOVE, cmd.dir)>>
                \o value_as_bytes(ABS_POS, cmd.steps)
      [] cmd.cls = "GoTo" ->
            <<OpCodes.GOTO>> \o value_as_bytes(ABS_POS, cmd.pos)
      [] cmd.cls = "GoToDir" ->
            <<BitOr(OpCodes.GOTO_DIR, cmd.dir)>>
                \o value_as_bytes(ABS_POS, cmd.pos)
      [] cmd.cls = "GoUntil" ->
            <<BitOr(BitOr(OpCodes.GO_UNTIL, cmd.dir), cmd.action)>>
                \o value_as_bytes(SPEED, spd_calc(cmd.speed))
      [] cmd.cls = "ReleaseSW" ->
            <<BitOr(BitOr(OpCodes.RELEASE_SW, cmd.dir), cmd.action)>>

\* the parameterless commands commands.py builds at import: the opcode and
\* the size of each, and the name of its pre-built request
SimpleCommands ==
    [GO_HOME |-> [opcode |-> OpCodes.GO_HOME, size |-> 1, request |-> "GO_HOME_REQUEST"],
     GO_MARK |-> [opcode |-> OpCodes.GO_MARK, size |-> 1, request |-> "GO_MARK_REQUEST"],
     RESET_POS |-> [opcode |-> OpCodes.RESET_POS, size |-> 1, request |-> "RESET_POS_REQUEST"],
     RESET_DEVICE |-> [opcode |-> OpCodes.RESET_DEVICE, size |-> 1, request |-> "RESET_DEVICE_REQUEST"],
     SOFT_STOP |-> [opcode |-> OpCodes.SOFT_STOP, size |-> 1, request |-> "SOFT_STOP_REQUEST"],
     HARD_STOP |-> [opcode |-> OpCodes.HARD_STOP, size |-> 1, request |-> "HARD_STOP_REQUEST"],
     SOFT_HIZ |-> [opcode |-> OpCodes.SOFT_HIZ, size |-> 1, request |-> "SOFT_HIZ_REQUEST"],
     HARD_HIZ |-> [opcode |-> OpCodes.HARD_HIZ, size |-> 1, request |-> "HARD_HIZ_REQUEST"],
     GET_STATUS |-> [opcode |-> OpCodes.GET_STATUS, size |-> 3, request |-> "GET_STATUS_REQUEST"]]

\* the command object of a parameterless command (GO_HOME, ...)
SimpleCommandObject(name) ==
    SimpleCommand(SimpleCommands[name].opcode, SimpleCommands[name].size).cmd

\* NOP_1_REQUEST .. GET_STATUS_REQUEST as commands.py renders them at import
ConstRequests ==
    [NOP_1_REQUEST |-> as_request(Nop(1).cmd),
     NOP_2_REQUEST |-> as_request(Nop(2).cmd),
     NOP_3_REQUEST |-> as_request(Nop(3).cmd),
     NOP_4_REQUEST |-> as_request(Nop(4).cmd),
     GO_HOME_REQUEST |-> as_request(SimpleCommandObject("GO_HOME")),
     GO_MARK_REQUEST |-> as_request(SimpleCommandObject("GO_MARK")),
     RESET_POS_REQUEST |-> as_request(SimpleCommandObject("RESET_POS")),
     RESET_DEVICE_REQUEST |-> as_request(SimpleCommandObject("RESET_DEVICE")),
     SOFT_STOP_REQUEST |-> as_request(SimpleCommandObject("SOFT_STOP")),
     HARD_STOP_REQUEST |-> as_request(SimpleCommandObject("HARD_STOP")),
     SOFT_HIZ_REQUEST |-> as_request(SimpleCommandObject("SOFT_HIZ")),
     HARD_HIZ_REQUEST |-> as_request(SimpleCommandObject("HARD_HIZ")),
     GET_STATUS_REQUEST |-> as_request(SimpleCommandObject("GET_STATUS"))]

\* the arguments of a constructor call, one field per argument of any of the
\* constructors; a constructor reads its own
NoArgs ==
    [cls |-> "", reg |-> ABS_POS, opcode |-> 0, size |-> 0, value |-> 0,
     action |-> 0, direction |-> 0, speed |-> 0, position |-> 0]

\* the constructor call `call`: what class cls yields from its arguments
Construct(call) ==
    CASE call.cls = "SimpleCommand" -> SimpleCommand(call.opcode, call.size)
      [] call.cls = "Nop" -> Nop(call.size)
      [] call.cls = "SetParam" -> SetParam(call.reg, call.value)
      [] call.cls = "GetParam" -> GetParam(call.reg)
      [] call.cls = "Run" -> Run(call.direction, call.speed)
      [] call.cls = "StepClock" -> StepClock(call.direction)
      [] call.cls = "Move" -> Move(call.direction, call.position)
      [] call.cls = "GoTo" -> GoTo(call.position)
      [] call.cls = "GoToDir" -> GoToDir(call.direction, call.position)
      [] call.cls = "GoUntil" -> GoUntil(call.action, call.direction, call.speed)
      [] call.cls = "ReleaseSW" -> ReleaseSW(call.action, call.direction)

\* the variant of Render that hands out the module-level request list of a
\* parameterless command instead of building a list
Render_prebuilt(heap, cmd) ==
    LET names == {n \in DOMAIN SimpleCommands :
                    /\ cmd.cls = "SimpleCommand"
                    /\ SimpleCommands[n].opcode = cmd.opcode
                    /\ SimpleCommands[n].size = Len(cmd.padding) + 1}
    IN  IF names = {}
        THEN as_request(cmd)
        ELSE heap[SimpleCommands[CHOOSE n \in names : TRUE].request]

\* cmd.as_request() called while the module-level request lists are `heap`:
\* every as_request builds a new list from the fields of the command
Render(heap, cmd) ==
    as_request(cmd)

----------------------------------------------------------------------------
(* Optional values and the slots of a request list *)

None == <<>>

Some(x) == <<x>>

NoneSlot ==
    [kind |-> "none", bytes |-> <<>>, name |-> ""]

ListSlot(bytes) ==
    [kind |-> "list", bytes |-> bytes, name |-> ""]

ConstSlot(name) ==
    [kind |-> "const", bytes |-> <<>>, name |-> name]

CmdSlot ==
    [kind |-> "cmd", bytes |-> <<>>, name |-> ""]

\* the list a slot refers to
Deref(heap, r) ==
    IF r.kind = "const" THEN heap[r.name] ELSE r.bytes

\* Python's truth value of a slot: None and the empty list are false, an
\* object without __len__ is true
Truthy(heap, r) ==
    \/ r.kind = "cmd"
    \/ r.kind \in {"list", "const"} /\ Len(Deref(heap, r)) > 0

SeqMax(s) ==
    CHOOSE m \in {s[i] : i \in DOMAIN s} : \A i \in DOMAIN s : s[i] <= m

----------------------------------------------------------------------------
(* The transport: what the SPI device answers *)

\* the behaviours of the device side of the bus that are modelled: "zero"
\* answers like fake_spidev, "tag" answers a byte that names the call and
\* the position in it
ReplyModes ==
    {"zero", "tag"}

\* the behaviours of a device side that answers the first register read of
\* an operation by the content of CONFIG: "reset" answers the reset value
\* 0x2E88 for every device, "reset_but_first" and "reset_but_last" answer
\* 0x2E89 for the first and for the last device on the bus, and "zero" is
\* fake_spidev again
ConfigModes ==
    {"zero", "reset", "reset_but_first", "reset_but_last"}

\* the byte a device answers to the k-th byte of a GetParam(CONFIG) request,
\* its CONFIG being 0x2E89 when `other` and 0x2E88 otherwise
ConfigByte(k, other) ==
    IF k = 2 THEN 46
    ELSE IF k = 3 THEN (IF other THEN 137 ELSE 136)
    ELSE 0

\* the answer to the k-th call of an operation (1-based), given its bytes
Reply(mode, k, out) ==
    IF mode = "zero"
    THEN [i \in 1..Len(out) |-> 0]
    ELSE IF mode = "tag"
    THEN [i \in 1..Len(out) |-> 16 * k + i]
    ELSE [i \in 1..Len(out) |->
            ConfigByte(k, \/ mode = "reset_but_first" /\ i = 1
                          \/ mode = "reset_but_last" /\ i = Len(out))]

\* what an operation did: its outcome, the module-level request lists and
\* the request list afterwards, the transport calls, the value returned
Effect(o, heap, reqs, calls, res) ==
    [outcome |-> o, heap |-> heap, requests |-> reqs, bus |-> calls,
     result |-> res]

\* the variant of DSPinSpiDev.xfer that hands the whole message to the
\* underlying xfer in one call
SpiXfer_whole(values, mode) ==
    <<[via |-> "xfer", out |-> values, in |-> Reply(mode, 1, values)]>>

\* DSPinSpiDev.xfer: one call of the underlying xfer per byte
SpiXfer(values, mode) ==
    [k \in 1..Len(values) |->
        [via |-> "xfer", out |-> <<values[k]>>,
         in |-> Reply(mode, k, <<values[k]>>)]]

\* DSPinSpiDev.xfer2: one call of the underlying xfer for the whole message,
\* as the k-th call of the operation
SpiXfer2(values, mode, k) ==
    [via |-> "xfer2", out |-> values, in |-> Reply(mode, k, values)]

\* the bytes received by a sequence of transport calls, in order
RECURSIVE Received(_)
Received(calls) ==
    IF calls = <<>> THEN <<>> ELSE Head(calls).in \o Received(Tail(calls))

\* the variant of Failing that makes the call that raised once more and
\* carries on
Failing_retry(x, k, e) ==
    [outcome |-> "ok", heap |-> x.heap, requests |-> x.requests,
     bus |-> SubSeq(x.bus, 1, k) \o SubSeq(x.bus, k, Len(x.bus)),
     result |-> x.result]

\* what becomes of an operation when its k-th call of the transport raises
\* e: no statement of core.py or daisychain.py catches it, so the calls
\* before it were made, the call itself was made and answered nothing, and
\* the operation ends there with e; the padding of a chain transfer is done
\* by then
Failing(x, k, e) ==
    [outcome |-> e, heap |-> x.heap, requests |-> x.requests,
     bus |-> [j \in 1..k |->
                IF j < k THEN x.bus[j]
                ELSE [via |-> x.bus[j].via, out |-> x.bus[j].out, in |-> <<>>]],
     result |-> None]

----------------------------------------------------------------------------
(* daisychain.py: DaisyChain._xfer *)

\* the padding loop without the extension of the present requests
PadRequests_noextend(heap, reqs, i, max_len) ==
    [heap |-> heap,
     requests |-> [k \in 1..Len(reqs) |->
                    IF Truthy(heap, reqs[k]) THEN reqs[k]
                    ELSE ListSlot(Zeros(max_len))]]

\* the loop that pads the requests: a present request is extended in place
\* with the tail of the padding, an absent one is replaced by the padding
RECURSIVE PadRequests(_, _, _, _)
PadRequests(heap, reqs, i, max_len) ==
    IF i > Len(reqs)
    THEN [heap |-> heap, requests |-> reqs]
    ELSE LET r == reqs[i]
             cur == Deref(heap, r)
             ext == cur \o Zeros(max_len - Len(cur))
         IN  IF Truthy(heap, r)
             THEN IF r.kind = "const"
                  THEN PadRequests([heap EXCEPT ![r.name] = ext], reqs,
                                   i + 1, max_len)
                  ELSE PadRequests(heap, [reqs EXCEPT ![i].bytes = ext],
                                   i + 1, max_len)
             ELSE PadRequests(heap, [reqs EXCEPT ![i] = ListSlot(Zeros(max_len))],
                              i + 1, max_len)

\* zip over the requests: column j holds byte j of every request, in device order;
\* zip stops at the shortest request
Columns(heap, reqs) ==
    LET lens == {Len(Deref(heap, reqs[i])) : i \in DOMAIN reqs}
        n == IF reqs = <<>> THEN 0
             ELSE CHOOSE m \in lens : \A l \in lens : m <= l
    IN  [j \in 1..n |-> [i \in 1..Len(reqs) |-> Deref(heap, reqs[i])[j]]]

\* the columns sent last byte first
ColumnCalls_reversed(heap, reqs, mode) ==
    LET cols == Columns(heap, reqs)
        n == Len(cols)
    IN  [j \in 1..n |-> SpiXfer2(cols[n + 1 - j], mode, j)]

\* one self._spi.xfer2(p) for every p of the zip over the requests
ColumnCalls(heap, reqs, mode) ==
    LET cols == Columns(heap, reqs)
    IN  [j \in 1..Len(cols) |-> SpiXfer2(cols[j], mode, j)]

\* the replies of the columns taken for the replies of the devices
Dispatch_untransposed(calls, n) ==
    [i \in 1..n |-> IF i <= Len(calls) THEN calls[i].in ELSE <<>>]

\* zip over the replies: entry i holds, for every column, the byte received at
\* position i
Dispatch(calls, n) ==
    [i \in 1..n |-> [j \in 1..Len(calls) |-> calls[j].in[i]]]

\* [r if i in dist_list else None for i, r in enumerate(replies)]
RemoveDummies(replies, dist_list) ==
    [i \in 1..Len(replies) |->
        IF i \in dist_list THEN Some(replies[i]) ELSE None]

\* _xfer that answers a list without a request in it by a reply of None for
\* every slot, without a transfer
Xfer_absentreplies(heap, reqs, length, mode) ==
    LET present == {i \in DOMAIN reqs : Truthy(heap, reqs[i])}
        max_len == SeqMax([i \in DOMAIN reqs |->
                        IF i \in present THEN Len(Deref(heap, reqs[i])) ELSE 0])
        padded == PadRequests(heap, reqs, 1, max_len)
        calls == ColumnCalls(padded.heap, padded.requests, mode)
    IN  IF Len(reqs) # length
        THEN Effect("ValueError", heap, reqs, <<>>, <<>>)
        ELSE IF \E i \in present : reqs[i].kind = "cmd"
        THEN Effect("TypeError", heap, reqs, <<>>, <<>>)
        ELSE IF present = {}
        THEN Effect("ok", heap, reqs, <<>>, [i \in DOMAIN reqs |-> None])
        ELSE Effect("ok", padded.heap, padded.requests, calls,
                    RemoveDummies(Dispatch(calls, Len(reqs)), present))

\* _xfer that does not compare the number of requests with the length of the chain
Xfer_nolengthcheck(heap, reqs, length, mode) ==
    LET present == {i \in DOMAIN reqs : Truthy(heap, reqs[i])}
        max_len == SeqMax([i \in DOMAIN reqs |->
                        IF i \in present THEN Len(Deref(heap, reqs[i])) ELSE 0])
        padded == PadRequests(heap, reqs, 1, max_len)
        calls == ColumnCalls(padded.heap, padded.requests, mode)
    IN  IF present = {} \/ \E i \in present : reqs[i].kind = "cmd"
        THEN Effect("ValueError", heap, reqs, <<>>, <<>>)
        ELSE Effect("ok", padded.heap, padded.requests, calls,
                    RemoveDummies(Dispatch(calls, Len(reqs)), present))

\* DaisyChain._xfer(requests) on a chain of `length` devices
Xfer(heap, reqs, length, mode) ==
    LET \* dist_list = [i for i, r in enumerate(requests) if r]
        present == {i \in DOMAIN reqs : Truthy(heap, reqs[i])}
        \* max((len(r) for r in requests if r))
        max_len == SeqMax([i \in DOMAIN reqs |->
                        IF i \in present THEN Len(Deref(heap, reqs[i])) ELSE 0])
        padded == PadRequests(heap, reqs, 1, max_len)
        calls == ColumnCalls(padded.heap, padded.requests, mode)
    IN  IF Len(reqs) # length
        THEN Effect("ValueError", heap, reqs, <<>>, <<>>)
        ELSE IF \E i \in present : reqs[i].kind = "cmd"
        \* len() of a command object
        THEN Effect("TypeError", heap, reqs, <<>>, <<>>)
        ELSE IF present = {}
        \* max() of an empty sequence
        THEN Effect("ValueError", heap, reqs, <<>>, <<>>)
        ELSE Effect("ok", padded.heap, padded.requests, calls,
                    RemoveDummies(Dispatch(calls, Len(reqs)), present))

----------------------------------------------------------------------------
(* daisychain.py: the operations of the chain *)

\* DaisyChain.broadcast_request(request)
broadcast_request(heap, request, length, mode) ==
    LET reqs == [i \in 1..length |-> ListSlot(request)]
        calls == ColumnCalls(heap, reqs, mode)
    IN  Effect("ok", heap, reqs, calls, Dispatch(calls, length))

\* `if dist_list:` is false for None and for an empty list
HasDistList(dist_list) ==
    dist_list # None /\ dist_list[1] # {}

\* the filler of send_command is one byte long
FillerFor_onebyte(command_request) ==
    as_request(Nop(1).cmd)

\* nop = commands.Nop(len(command_request)).as_request()
FillerFor(command_request) ==
    as_request(Nop(Len(command_request)).cmd)

\* DaisyChain.send_command(command, dist_list); the devices of dist_list are
\* numbered from 0
send_command(heap, command, dist_list, length, mode) ==
    LET command_request == as_request(command)
        nop == FillerFor(command_request)
        reqs == [i \in 1..length |->
                    IF (i - 1) \in dist_list[1]
                    THEN ListSlot(command_request)
                    ELSE ListSlot(nop)]
    IN  IF HasDistList(dist_list)
        THEN Effect("ok", heap, reqs, ColumnCalls(heap, reqs, mode), None)
        ELSE LET b == broadcast_request(heap, command_request, length, mode)
             IN  Effect("ok", b.heap, b.requests, b.bus, None)

\* DaisyChain.read_register(reg): the same GetParam request for every
\* device (one list, as long as the longest, so the padding adds nothing)
chain_read_register(heap, reg, length, mode) ==
    LET reqs == [i \in 1..length |-> ListSlot(as_request(GetParam(reg).cmd))]
        x == Xfer(heap, reqs, length, mode)
    IN  Effect(x.outcome, x.heap, x.requests, x.bus,
               [i \in 1..length |->
                    parse_register_reply(reg, Tail(x.result[i][1]))])

\* a sequence of the wrong length is taken for a scalar
chain_write_register_fallback(heap, reg, data, length, mode) ==
    LET reqs ==
            IF data.scalar \/ Len(data.seq) # length
            THEN [i \in 1..length |->
                    ListSlot(as_request(SetParam(reg, data.v).cmd))]
            ELSE [i \in 1..length |->
                    IF data.seq[i] # None
                    THEN ListSlot(as_request(SetParam(reg, data.seq[i][1]).cmd))
                    ELSE NoneSlot]
        x == Xfer(heap, reqs, length, mode)
    IN  Effect(x.outcome, x.heap, x.requests, x.bus, None)

\* DaisyChain.write_register(reg, data): data is a scalar (data.scalar, its
\* value data.v) or a sequence of optional values (data.seq)
chain_write_register(heap, reg, data, length, mode) ==
    IF ~data.scalar /\ Len(data.seq) # length
    THEN Effect("ValueError", heap, <<>>, <<>>, None)
    ELSE LET reqs ==
                IF data.scalar
                THEN [i \in 1..length |->
                        ListSlot(as_request(SetParam(reg, data.v).cmd))]
                ELSE [i \in 1..length |->
                        IF data.seq[i] # None
                        THEN ListSlot(as_request(SetParam(reg, data.seq[i][1]).cmd))
                        ELSE NoneSlot]
             x == Xfer(heap, reqs, length, mode)
         IN  Effect(x.outcome, x.heap, x.requests, x.bus, None)

\* a constructor's command rendered as the slot of a request list
Rendered(c) ==
    IF c.err # ""
    THEN [err |-> c.err, slot |-> NoneSlot]
    ELSE [err |-> "", slot |-> ListSlot(as_request(c.cmd))]

\* a constructor's command put in the request list as it is
Unrendered(c) ==
    IF c.err # ""
    THEN [err |-> c.err, slot |-> NoneSlot]
    ELSE [err |-> "", slot |-> CmdSlot]

Filler(name) ==
    [err |-> "", slot |-> ConstSlot(name)]

\* the element the list comprehension of DaisyChain.run, step_clock, move,
\* goto, goto_dir, go_until or release_sw builds for one device, whose
\* optional parameters are p.action, p.direction, p.speed, p.position
ChainRequestFor(name, p) ==
    CASE name = "run" ->
            IF p.direction # None /\ p.speed # None
            THEN Rendered(Run(p.direction[1], p.speed[1]))
            ELSE Filler("NOP_4_REQUEST")
      [] name = "step_clock" ->
            IF p.direction # None
            THEN Rendered(StepClock(p.direction[1]))
            ELSE Filler("NOP_1_REQUEST")
      [] name = "move" ->
            IF p.direction # None /\ p.position # None
            THEN Rendered(Move(p.direction[1], p.position[1]))
            ELSE Filler("NOP_4_REQUEST")
      [] name = "goto" ->
            IF p.position # None
            THEN Rendered(GoTo(p.position[1]))
            ELSE Filler("NOP_4_REQUEST")
      [] name = "goto_dir" ->
            IF p.direction # None /\ p.position # None
            THEN Rendered(GoToDir(p.direction[1], p.position[1]))
            ELSE Filler("NOP_4_REQUEST")
      [] name = "go_until" ->
            IF p.action # None /\ p.direction # None /\ p.speed # None
            THEN Rendered(GoUntil(p.action[1], p.direction[1], p.speed[1]))
            ELSE Filler("NOP_4_REQUEST")
      [] name = "release_sw" ->
            IF p.action # None /\ p.direction # None
            THEN Unrendered(ReleaseSW(p.action[1], p.direction[1]))
            ELSE Filler("NOP_4_REQUEST")

\* DaisyChain.run, step_clock, move, goto, goto_dir, go_until, release_sw up
\* to the wait: the requests are built for every device, then transferred
chain_motion(heap, name, params, length, mode) ==
    LET built == [i \in 1..Len(params) |-> ChainRequestFor(name, params[i])]
        x == Xfer(heap, [i \in 1..Len(params) |-> built[i].slot], length, mode)
    IN  IF \E i \in 1..Len(params) : built[i].err # ""
        THEN Effect("ValueError", heap, <<>>, <<>>, None)
        ELSE Effect(x.outcome, x.heap, x.requests, x.bus, None)

\* an entry of the dictionary given to expand_parameters: a bare value
\* (scalar, its value t[1]) or a tuple t
\* len(p), or 1 when len raises TypeError
ArityOf(e) ==
    IF e.scalar THEN 1 ELSE Len(e.t)

\* p, or (p,) when len raises TypeError
TupleOf(e) ==
    e.t

\* the loop finds no difference between an entry and the reference size
Mismatch_never(p_dict, p_count) ==
    FALSE

\* whether the loop over p_dict.iteritems() meets an entry whose size is not
\* p_count; the loop changes nothing the caller sees before it raises
Mismatch(p_dict, p_count) ==
    \E m \in DOMAIN p_dict : ArityOf(p_dict[m]) # p_count

\* the rows handed back as they are
ZipVectors_rows(p_list) ==
    p_list

\* zip over the rows of p_list: as many vectors as the shortest row is long,
\* vector k holding element k of every row
ZipVectors(p_list) ==
    LET lens == {Len(p_list[d]) : d \in DOMAIN p_list}
        n == CHOOSE m \in lens : \A l \in lens : m <= l
    IN  [k \in 1..n |-> [d \in DOMAIN p_list |-> p_list[d][k]]]

\* DaisyChain.expand_parameters(p_dict) on a chain of `length` devices;
\* p_dict maps device numbers (from 0) to entries, and `first` is the key
\* whose value p_dict.values()[0] is
expand_parameters(heap, p_dict, first, length) ==
    LET p_count == ArityOf(p_dict[first])
        p_list == [d \in 1..length |->
                      IF (d - 1) \in DOMAIN p_dict
                      THEN [k \in 1..Len(TupleOf(p_dict[d - 1])) |->
                                Some(TupleOf(p_dict[d - 1])[k])]
                      ELSE [k \in 1..p_count |-> None]]
    IN  IF Mismatch(p_dict, p_count)
        THEN Effect("ValueError", heap, <<>>, <<>>, None)
        ELSE Effect("ok", heap, <<>>, <<>>, Some(ZipVectors(p_list)))

----------------------------------------------------------------------------
(* core.py: the operations of the single-device driver *)

\* DSPIN._xfer(data): self._spi.xfer(data)
dev_xfer(heap, data, mode) ==
    LET calls == SpiXfer(data, mode)
    IN  Effect("ok", heap, <<>>, calls, Received(calls))

\* DSPIN.write_register(reg, value)
write_register(heap, reg, value, mode) ==
    LET x == dev_xfer(heap, as_request(SetParam(reg, value).cmd), mode)
    IN  Effect(x.outcome, x.heap, <<>>, x.bus, None)

\* DSPIN.read_register(reg): the reply to the first byte is dropped
read_register(heap, reg, mode) ==
    LET x == dev_xfer(heap, as_request(GetParam(reg).cmd), mode)
    IN  Effect(x.outcome, x.heap, <<>>, x.bus,
               parse_register_reply(reg, Tail(x.result)))

\* assigning to the property _register_as_property(reg) builds: a read-only
\* register has no setter
set_register_property(heap, reg, value, mode) ==
    IF reg.read_only
    THEN Effect("AttributeError", heap, <<>>, <<>>, None)
    ELSE write_register(heap, reg, value, mode)

\* the command DSPIN.run, step_clock, move, goto, goto_dir, go_until or
\* release_sw constructs from its parameters
DevCommandFor(name, p) ==
    CASE name = "run" -> Run(p.direction, p.speed)
      [] name = "step_clock" -> StepClock(p.direction)
      [] name = "move" -> Move(p.direction, p.position)
      [] name = "goto" -> GoTo(p.position)
      [] name = "goto_dir" -> GoToDir(p.direction, p.position)
      [] name = "go_until" -> GoUntil(p.action, p.direction, p.speed)
      [] name = "release_sw" -> ReleaseSW(p.action, p.direction)

\* DSPIN.run, step_clock, move, goto, goto_dir, go_until, release_sw up to
\* the wait
dev_motion(heap, name, p, mode) ==
    LET c == DevCommandFor(name, p)
        x == dev_xfer(heap, as_request(c.cmd), mode)
    IN  IF c.err # ""
        THEN Effect(c.err, heap, <<>>, <<>>, None)
        ELSE Effect(x.outcome, x.heap, <<>>, x.bus, None)

\* DSPIN.go_home, go_mark, reset_pos, reset_device, soft_stop, hard_stop,
\* soft_hi_Z, hard_hi_Z, clear_status up to the wait: the pre-built request
\* is transferred
dev_simple(heap, name, mode) ==
    LET x == dev_xfer(heap, heap[SimpleCommands[name].request], mode)
    IN  Effect(x.outcome, x.heap, <<>>, x.bus, None)

----------------------------------------------------------------------------
(* core.py: power_on_reset, prepare, initialize and shutdown, which the
   chain inherits; `on` is "dev" for a DSPIN and "chain" for a DaisyChain *)

\* a call of GPIO.setup or GPIO.output, or of the SPI device's open, made
\* after `sent` calls of the transport
GpioCall(call, pin, value, sent) ==
    [call |-> call, pin |-> pin, value |-> value, sent |-> sent]

\* what an operation did, the calls of the GPIO module included
WithGpio(x, calls) ==
    [outcome |-> x.outcome, heap |-> x.heap, requests |-> x.requests,
     bus |-> x.bus, result |-> x.result, gpio |-> calls]

\* DSPIN.standby(): GPIO.output(self._standby_pin, GPIO.LOW)
standby(sent) ==
    GpioCall("output", "standby", "LOW", sent)

\* DSPIN.awake(): GPIO.output(self._standby_pin, GPIO.HIGH)
awake(sent) ==
    GpioCall("output", "standby", "HIGH", sent)

\* the variant of power_on_reset that opens the SPI device after the reset
\* of the chip and leaves the chip in standby
power_on_reset_standby(heap, switch_pin) ==
    WithGpio(Effect("ok", heap, <<>>, <<>>, None),
             <<GpioCall("setup", "standby", "OUT", 0),
               GpioCall("setup", "busyn", "IN", 0)>>
                \o (IF switch_pin
                    THEN <<GpioCall("setup", "switch", "IN", 0)>>
                    ELSE <<>>)
                \o <<awake(0), standby(0), GpioCall("open", "spi", "", 0)>>)

\* DSPIN.power_on_reset(): the pins are set up (the switch pin when the
\* driver was given one), the SPI device is opened, and the chip is reset
\* by awake, standby, awake
power_on_reset(heap, switch_pin) ==
    WithGpio(Effect("ok", heap, <<>>, <<>>, None),
             <<GpioCall("setup", "standby", "OUT", 0),
               GpioCall("setup", "busyn", "IN", 0)>>
                \o (IF switch_pin
                    THEN <<GpioCall("setup", "switch", "IN", 0)>>
                    ELSE <<>>)
                \o <<GpioCall("open", "spi", "", 0),
                     awake(0), standby(0), awake(0)>>)

\* the variant of check_initial_config that is satisfied when some device
\* has the reset value
check_initial_config_any(on, heap, length, mode) ==
    LET Compared(x, equal) ==
            Effect(x.outcome, x.heap, <<>>, x.bus, equal)
        One(x) ==
            Compared(x, x.result = CONFIG.reset_value)
        AtLeastOne(x) ==
            Compared(x, \E i \in 1..length :
                            x.result[i] = CONFIG.reset_value)
    IN  IF on = "dev"
        THEN One(read_register(heap, CONFIG, mode))
        ELSE AtLeastOne(chain_read_register(heap, CONFIG, length, mode))

\* DSPIN.check_initial_config: self.CONFIG == Register.CONFIG.reset_value,
\* and DaisyChain.check_initial_config: the same for all the values read
check_initial_config(on, heap, length, mode) ==
    LET Compared(x, equal) ==
            Effect(x.outcome, x.heap, <<>>, x.bus, equal)
        One(x) ==
            Compared(x, x.result = CONFIG.reset_value)
        All(x) ==
            Compared(x, \A i \in 1..length :
                            x.result[i] = CONFIG.reset_value)
    IN  IF on = "dev"
        THEN One(read_register(heap, CONFIG, mode))
        ELSE All(chain_read_register(heap, CONFIG, length, mode))

\* self.hard_hi_Z() and self.clear_status() of a DSPIN and of a DaisyChain
\* (without a distribution list)
simple_on(on, heap, name, length, mode) ==
    IF on = "dev"
    THEN dev_simple(heap, name, mode)
    ELSE send_command(heap, SimpleCommandObject(name), None, length, mode)

\* DSPIN.prepare(): False when the check fails, otherwise hard_hi_Z,
\* clear_status and True
prepare(on, heap, length, mode) ==
    LET Cleared(c, h, s) ==
            Effect("ok", s.heap, <<>>, c.bus \o h.bus \o s.bus, TRUE)
        Released(c, h) ==
            Cleared(c, h, simple_on(on, h.heap, "GET_STATUS", length, mode))
        Checked(c) ==
            IF ~c.result
            THEN Effect("ok", c.heap, <<>>, c.bus, FALSE)
            ELSE Released(c, simple_on(on, c.heap, "HARD_HIZ", length, mode))
    IN  Checked(check_initial_config(on, heap, length, mode))

\* DSPIN.initialize(): power_on_reset, then prepare
initialize(on, heap, length, mode, switch_pin) ==
    LET Prepared(p) ==
            WithGpio(prepare(on, p.heap, length, mode), p.gpio)
    IN  Prepared(power_on_reset(heap, switch_pin))

\* the variant of shutdown that goes standby first
shutdown_standbyfirst(on, heap, length, mode) ==
    LET Released(s, h) ==
            WithGpio(Effect("ok", h.heap, <<>>, s.bus \o h.bus, None),
                     <<standby(0)>>)
        Cleared(s) ==
            Released(s, simple_on(on, s.heap, "HARD_HIZ", length, mode))
    IN  Cleared(simple_on(on, heap, "GET_STATUS", length, mode))

\* DSPIN.shutdown(): clear_status, hard_hi_Z, standby
shutdown(on, heap, length, mode) ==
    LET Released(s, h) ==
            WithGpio(Effect("ok", h.heap, <<>>, s.bus \o h.bus, None),
                     <<standby(Len(s.bus) + Len(h.bus))>>)
        Cleared(s) ==
            Released(s, simple_on(on, s.heap, "HARD_HIZ", length, mode))
    IN  Cleared(simple_on(on, heap, "GET_STATUS", length, mode))

----------------------------------------------------------------------------
(* The arguments the operations are called with *)

\* the parameters of a motion operation for one device
Params(action, direction, speed, position) ==
    [action |-> action, direction |-> direction, speed |-> speed,
     position |-> position]

\* valid parameters, and parameters with an invalid direction, an invalid
\* speed (0 and MAX_VALUE + 1) or an invalid action
DevParams ==
    {Params(GoUntilAction.COPY, Direction.FWD, 100, 1000),
     Params(GoUntilAction.RESET, Direction.REV, MAX_VALUE, -5),
     Params(GoUntilAction.COPY, 2, 100, 1),
     Params(GoUntilAction.RESET, Direction.FWD, 0, 1),
     Params(4, Direction.REV, MAX_VALUE + 1, 1)}

\* the same for a device of the chain, every parameter optional
Named(p) ==
    Params(Some(p.action), Some(p.direction), Some(p.speed), Some(p.position))

\* whether every constructor accepts the parameters
AllAccepted(p) ==
    ActionAccepted(p.action) /\ DirectionAccepted(p.direction)
        /\ SpeedAccepted(p.speed)

\* a device that is not named, and devices named with valid parameters
ValidChainParams ==
    {Params(None, None, None, None)}
        \cup {Named(p) : p \in {q \in DevParams : AllAccepted(q)}}

\* devices named with an invalid parameter, and a device given a speed and
\* a position but neither a direction nor an action
OddChainParams ==
    {Params(None, None, Some(0), Some(1))}
        \cup {Named(p) : p \in {q \in DevParams : ~AllAccepted(q)}}

\* the parameters of the chain's motion operations, one per device: every
\* vector of valid parameters, and the vectors of the first two of them
\* with one device replaced by an odd one
ParamVectors(n) ==
    [1..n -> ValidChainParams]
        \cup {[v EXCEPT ![i] = f] :
                v \in [1..n -> {Params(None, None, None, None),
                                Named(Params(GoUntilAction.COPY, Direction.FWD, 100, 1000))}],
                i \in 1..n, f \in OddChainParams}

\* whether the method takes wait and wait_cb
MotionWaits ==
    [run |-> FALSE, step_clock |-> FALSE, move |-> TRUE, goto |-> TRUE,
     goto_dir |-> TRUE, go_until |-> TRUE, release_sw |-> TRUE]

\* the methods that send a parameterless command, with the command of each
\* and whether the method takes wait and wait_cb
DevSimpleMethods ==
    [go_home |-> [command |-> "GO_HOME", waits |-> TRUE],
     go_mark |-> [command |-> "GO_MARK", waits |-> TRUE],
     reset_pos |-> [command |-> "RESET_POS", waits |-> FALSE],
     reset_device |-> [command |-> "RESET_DEVICE", waits |-> FALSE],
     soft_stop |-> [command |-> "SOFT_STOP", waits |-> TRUE],
     hard_stop |-> [command |-> "HARD_STOP", waits |-> FALSE],
     soft_hi_Z |-> [command |-> "SOFT_HIZ", waits |-> TRUE],
     hard_hi_Z |-> [command |-> "HARD_HIZ", waits |-> FALSE],
     clear_status |-> [command |-> "GET_STATUS", waits |-> FALSE]]

ChainSimpleMethods ==
    [go_home |-> [command |-> "GO_HOME", waits |-> TRUE],
     go_mark |-> [command |-> "GO_MARK", waits |-> TRUE],
     clear_status |-> [command |-> "GET_STATUS", waits |-> FALSE],
     reset_pos |-> [command |-> "RESET_POS", waits |-> FALSE],
     reset_device |-> [command |-> "RESET_DEVICE", waits |-> FALSE],
     soft_stop |-> [command |-> "SOFT_STOP", waits |-> TRUE],
     hard_stop |-> [command |-> "HARD_STOP", waits |-> FALSE],
     hard_hi_Z |-> [command |-> "HARD_HIZ", waits |-> FALSE],
     soft_hi_Z |-> [command |-> "SOFT_HIZ", waits |-> TRUE]]

\* wait and wait_cb: no wait, a wait without and a wait with a callback
WaitArgs(waits) ==
    IF waits
    THEN {[wait |-> FALSE, cb |-> FALSE], [wait |-> TRUE, cb |-> FALSE],
          [wait |-> TRUE, cb |-> TRUE]}
    ELSE {[wait |-> FALSE, cb |-> FALSE]}

\* the slots of the request lists given to send_requests: None, and
\* requests of 1, 2 and 3 bytes
SlotChoices ==
    {NoneSlot,
     ListSlot(as_request(SimpleCommandObject("HARD_STOP"))),
     ListSlot(as_request(SetParam(KVAL_RUN, 41).cmd)),
     ListSlot(as_request(SimpleCommandObject("GET_STATUS")))}

\* the module-level request lists a caller hands to send_requests
ConstChoices ==
    {"GO_HOME_REQUEST", "NOP_1_REQUEST"}

\* request lists of the length of the chain; some of them with one slot
\* replaced by an empty list, or by a module-level request list next to
\* requests of 3 bytes; and some that are one shorter or one longer than the
\* chain
RequestLists(n) ==
    [1..n -> SlotChoices]
        \cup {[v EXCEPT ![i] = ListSlot(<<>>)] :
                v \in [1..n -> {NoneSlot, ListSlot(<<OpCodes.HARD_STOP>>)}],
                i \in 1..n}
        \cup {[v EXCEPT ![i] = ConstSlot(c)] :
                v \in [1..n -> {NoneSlot,
                                ListSlot(as_request(SimpleCommandObject("GET_STATUS")))}],
                i \in 1..n, c \in ConstChoices}
        \cup [1..(n - 1) -> {NoneSlot, ListSlot(<<OpCodes.HARD_STOP>>)}]
        \cup [1..(n + 1) -> {NoneSlot, ListSlot(<<OpCodes.HARD_STOP>>)}]

\* the registers and the values given to write_register
WriteValues ==
    {0, 5, 500, -5}

ChainWriteRegisters ==
    {ABS_POS, MAX_SPEED, KVAL_RUN, SPEED, CONFIG}

Scalar(v) ==
    [scalar |-> TRUE, v |-> v, seq |-> <<>>]

Vector(s) ==
    [scalar |-> FALSE, v |-> 0, seq |-> s]

\* the data given to the chain's write_register: a scalar, a value or None
\* for every device, or a sequence one shorter or one longer than the chain
ChainWriteData(n) ==
    {Scalar(v) : v \in WriteValues}
        \cup {Vector(s) : s \in [1..n -> {None, Some(5), Some(500)}]}
        \cup {Vector(s) : s \in [1..(n - 1) -> {None, Some(5)}]}
        \cup {Vector(s) : s \in [1..(n + 1) -> {None, Some(5)}]}

\* values that are no opcode
InvalidOpCodes ==
    {1, 255}

\* the sizes a SimpleCommand or a Nop is constructed with
FrameSizes ==
    (-1)..MaxFrame

\* the speeds and the positions (or numbers of steps) commands are
\* constructed with
RenderSpeeds ==
    {1, 100, 1500, 15626, MAX_VALUE}

RenderPositions ==
    {0, 1000, -5, 4194303, 4194309}

\* the constructor calls of a client: every class, with valid and with
\* invalid arguments
CommandCalls ==
    {[NoArgs EXCEPT !.cls = "SimpleCommand", !.opcode = o, !.size = n] :
        o \in AllOpCodes \cup InvalidOpCodes, n \in FrameSizes}
    \cup {[NoArgs EXCEPT !.cls = "Nop", !.size = n] : n \in FrameSizes}
    \cup {[NoArgs EXCEPT !.cls = "SetParam", !.reg = r, !.value = v] :
            r \in Registers, v \in WriteValues}
    \cup {[NoArgs EXCEPT !.cls = "GetParam", !.reg = r] : r \in Registers}
    \cup {[NoArgs EXCEPT !.cls = c, !.action = a, !.direction = d, !.speed = v] :
            c \in {"Run", "GoUntil"}, a \in {0, 8}, d \in {0, 1},
            v \in RenderSpeeds}
    \cup {[NoArgs EXCEPT !.cls = c, !.action = a, !.direction = d, !.position = x] :
            c \in {"StepClock", "Move", "GoTo", "GoToDir", "ReleaseSW"},
            a \in {0, 8}, d \in {0, 1}, x \in RenderPositions}
    \cup {[NoArgs EXCEPT !.cls = c, !.action = p.action,
                         !.direction = p.direction, !.speed = p.speed,
                         !.position = p.position] :
            c \in {"Run", "StepClock", "Move", "GoToDir", "GoUntil", "ReleaseSW"},
            p \in DevParams}

\* the entries of the dictionaries given to expand_parameters: a bare value,
\* and tuples of 0 to 3 values
ParamEntries ==
    {[scalar |-> TRUE, t |-> <<5>>],
     [scalar |-> FALSE, t |-> <<>>],
     [scalar |-> FALSE, t |-> <<7>>],
     [scalar |-> FALSE, t |-> <<5, 7>>],
     [scalar |-> FALSE, t |-> <<7, 5, 1>>]}

\* the dictionaries: an entry for every device of a non-empty set of devices
ParamDicts(n) ==
    UNION {[ds -> ParamEntries] : ds \in (SUBSET (0..(n - 1))) \ {{}}}

\* the physical values given to the conversions, of either sign: around 0,
\* around the first values whose product reaches 1 and 2 once 0.5 is
\* subtracted, around the value from which each conversion saturates,
\* around a speed whose product with 67.106 is an integer, and a value far
\* beyond every saturation
CalcInputs ==
    UNION {Around(c) \cup Around(-c) :
            c \in {0, 8, 23, 977, 1500, 1954, 3907, 15610, 15618, 15626, 29796}}
        \cup {1000000, -1000000}

\* the drivers: a DSPIN without and with a switch pin, and a DaisyChain
\* (which passes no switch pin to DSPIN.__init__)
Drivers ==
    {[on |-> "dev", switch_pin |-> FALSE], [on |-> "dev", switch_pin |-> TRUE],
     [on |-> "chain", switch_pin |-> FALSE]}

\* a distribution list: None, or the devices named (numbered from 0)
DistLists(n) ==
    {None} \cup {Some(s) : s \in SUBSET (0..(n - 1))}

----------------------------------------------------------------------------
(* The state after construction, and the operations *)

\* no call is recorded
NoCall ==
    [name |-> "none", on |-> "none", kind |-> "none"]

Init ==
    /\ chainLength \in 2..MaxChain
    /\ fakeGpio \in BOOLEAN
    /\ consts = ConstRequests
    /\ pc = "idle"
    /\ op = NoCall
    /\ outcome = "none"
    /\ bus = <<>>
    /\ requests = <<>>
    /\ result = None
    /\ waitCb = FALSE
    /\ polls = 0
    /\ cbCalls = 0
    /\ samples = <<>>
    /\ gpio = <<>>

\* the variant of Finish that enters wait_for_move_complete whatever the
\* wait argument is
Finish_ignoresWait(call, x, w) ==
    /\ op' = call
    /\ outcome' = x.outcome
    /\ consts' = x.heap
    /\ requests' = x.requests
    /\ bus' = x.bus
    /\ result' = x.result
    /\ waitCb' = w.cb
    /\ polls' = 0
    /\ cbCalls' = 0
    /\ samples' = <<>>
    /\ gpio' = IF "gpio" \in DOMAIN x THEN x.gpio ELSE <<>>
    /\ pc' = IF x.outcome = "ok" /\ ~fakeGpio THEN "wait" ELSE "done"
    /\ UNCHANGED <<chainLength, fakeGpio>>

\* a call is made: what it did up to its wait is recorded, and it either
\* returns (or raises) at once or enters wait_for_move_complete, which
\* returns at once when the GPIO module is the fake one
Finish(call, x, w) ==
    /\ op' = call
    /\ outcome' = x.outcome
    /\ consts' = x.heap
    /\ requests' = x.requests
    /\ bus' = x.bus
    /\ result' = x.result
    /\ waitCb' = w.cb
    /\ polls' = 0
    /\ cbCalls' = 0
    /\ samples' = <<>>
    /\ gpio' = IF "gpio" \in DOMAIN x THEN x.gpio ELSE <<>>
    /\ pc' = IF x.outcome = "ok" /\ w.wait /\ ~fakeGpio THEN "wait" ELSE "done"
    /\ UNCHANGED <<chainLength, fakeGpio>>

NoWait ==
    [wait |-> FALSE, cb |-> FALSE]

\* Register.value_as_bytes(reg, value), and parse_register_reply on its bytes
EncodeDecode ==
    /\ pc = "idle"
    /\ \E reg \in Registers : \E v \in CodecValues(reg) :
        Finish([name |-> "value_as_bytes", on |-> "none", kind |-> "codec",
                reg |-> reg, value |-> v],
               Effect("ok", consts, <<>>, <<>>,
                      [enc |-> value_as_bytes(reg, v),
                       dec |-> parse_register_reply(reg, value_as_bytes(reg, v))]),
               NoWait)

\* acc_calc, dec_calc, max_spd_calc, min_spd_calc, fs_spd_calc, int_spd_calc
\* and spd_calc of defs.py
Convert ==
    /\ pc = "idle"
    /\ \E c \in Conversions : \E x \in CalcInputs :
        Finish([name |-> c, on |-> "none", kind |-> "calc", physical |-> x],
               Effect("ok", consts, <<>>, <<>>, Some(Calc(c, x))), NoWait)

\* a command is constructed and, when the constructor returned, rendered
RenderCommand ==
    /\ pc = "idle"
    /\ \E call \in CommandCalls :
        LET c == Construct(call)
        IN  Finish([name |-> "as_request", on |-> "none", kind |-> "render",
                    call |-> call],
                   Effect(IF c.err = "" THEN "ok" ELSE c.err, consts, <<>>, <<>>,
                          IF c.err = "" THEN Some(Render(consts, c.cmd)) ELSE None),
                   NoWait)

\* DaisyChain.send_requests(requests, wait, wait_cb)
SendRequests ==
    /\ pc = "idle"
    /\ \E reqs \in RequestLists(chainLength) : \E mode \in ReplyModes :
        \E w \in WaitArgs(TRUE) :
            Finish([name |-> "send_requests", on |-> "chain", kind |-> "requests",
                    requests |-> reqs,
                    given |-> [i \in 1..Len(reqs) |-> Deref(consts, reqs[i])],
                    wait |-> w.wait],
                   Xfer(consts, reqs, chainLength, mode), w)

\* DaisyChain.go_home, go_mark, clear_status, reset_pos, reset_device,
\* soft_stop, hard_stop, hard_hi_Z, soft_hi_Z (dist_list, wait, wait_cb)
ChainSimple ==
    /\ pc = "idle"
    /\ \E m \in DOMAIN ChainSimpleMethods : \E dl \in DistLists(chainLength) :
        \E w \in WaitArgs(ChainSimpleMethods[m].waits) :
            Finish([name |-> m, on |-> "chain", kind |-> "simple",
                    command |-> ChainSimpleMethods[m].command,
                    dist_list |-> dl, wait |-> w.wait],
                   send_command(consts,
                                SimpleCommandObject(ChainSimpleMethods[m].command),
                                dl, chainLength, "zero"),
                   w)

\* DaisyChain.expand_parameters(p_dict)
ExpandParameters ==
    /\ pc = "idle"
    /\ \E p_dict \in ParamDicts(chainLength) : \E first \in DOMAIN p_dict :
        Finish([name |-> "expand_parameters", on |-> "host", kind |-> "expand",
                p_dict |-> p_dict, first |-> first],
               expand_parameters(consts, p_dict, first, chainLength), NoWait)

\* DaisyChain.read_register(reg), and chain.<REGISTER>
ChainReadRegister ==
    /\ pc = "idle"
    /\ \E reg \in ChainWriteRegisters : \E mode \in ReplyModes :
        Finish([name |-> "read_register", on |-> "chain", kind |-> "read",
                reg |-> reg, mode |-> mode],
               chain_read_register(consts, reg, chainLength, mode), NoWait)

\* DaisyChain.write_register(reg, data)
ChainWriteRegister ==
    /\ pc = "idle"
    /\ \E reg \in ChainWriteRegisters : \E data \in ChainWriteData(chainLength) :
        Finish([name |-> "write_register", on |-> "chain", kind |-> "write",
                reg |-> reg,
                data |-> data, wait |-> FALSE],
               chain_write_register(consts, reg, data, chainLength, "zero"),
               NoWait)

\* DaisyChain.run, step_clock, move, goto, goto_dir, go_until, release_sw
ChainMotion ==
    /\ pc = "idle"
    /\ \E m \in DOMAIN MotionWaits : \E ps \in ParamVectors(chainLength) :
        \E w \in WaitArgs(MotionWaits[m]) :
            Finish([name |-> m, on |-> "chain", kind |-> "motion",
                    params |-> ps, wait |-> w.wait],
                   chain_motion(consts, m, ps, chainLength, "zero"), w)

\* DSPIN.write_register(reg, value)
DevWriteRegister ==
    /\ pc = "idle"
    /\ \E reg \in Registers : \E v \in WriteValues :
        Finish([name |-> "write_register", on |-> "dev", kind |-> "write",
                reg |-> reg,
                value |-> v, wait |-> FALSE],
               write_register(consts, reg, v, "zero"), NoWait)

\* DSPIN.read_register(reg), and dspin.<REGISTER>
DevReadRegister ==
    /\ pc = "idle"
    /\ \E reg \in Registers : \E mode \in ReplyModes :
        Finish([name |-> "read_register", on |-> "dev", kind |-> "read",
                reg |-> reg, mode |-> mode],
               read_register(consts, reg, mode), NoWait)

\* dspin.<REGISTER> = value
DevSetRegister ==
    /\ pc = "idle"
    /\ \E reg \in Registers : \E v \in WriteValues :
        Finish([name |-> "set_register", on |-> "dev", kind |-> "write",
                reg |-> reg,
                value |-> v, wait |-> FALSE],
               set_register_property(consts, reg, v, "zero"), NoWait)

\* DSPIN.run, step_clock, move, goto, goto_dir, go_until, release_sw
DevMotion ==
    /\ pc = "idle"
    /\ \E m \in DOMAIN MotionWaits : \E p \in DevParams :
        \E w \in WaitArgs(MotionWaits[m]) :
            Finish([name |-> m, on |-> "dev", kind |-> "motion",
                    params |-> p, wait |-> w.wait],
                   dev_motion(consts, m, p, "zero"), w)

\* DSPIN.go_home, go_mark, reset_pos, reset_device, soft_stop, hard_stop,
\* soft_hi_Z, hard_hi_Z, clear_status
DevSimple ==
    /\ pc = "idle"
    /\ \E m \in DOMAIN DevSimpleMethods :
        \E w \in WaitArgs(DevSimpleMethods[m].waits) :
            Finish([name |-> m, on |-> "dev", kind |-> "simple",
                    command |-> DevSimpleMethods[m].command, wait |-> w.wait],
                   dev_simple(consts, DevSimpleMethods[m].command, "zero"), w)

\* the call of an operation of the lifecycle on driver d, the device side
\* answering as `mode` says
LifecycleCall(name, d, mode) ==
    [name |-> name, on |-> "lifecycle", kind |-> "lifecycle",
     driver |-> d.on, switch_pin |-> d.switch_pin, mode |-> mode]

\* DSPIN.power_on_reset()
PowerOnReset ==
    /\ pc = "idle"
    /\ \E d \in Drivers :
        Finish(LifecycleCall("power_on_reset", d, "zero"),
               power_on_reset(consts, d.switch_pin), NoWait)

\* DSPIN.prepare()
Prepare ==
    /\ pc = "idle"
    /\ \E d \in Drivers : \E mode \in ConfigModes :
        Finish(LifecycleCall("prepare", d, mode),
               prepare(d.on, consts, chainLength, mode), NoWait)

\* DSPIN.initialize()
Initialize ==
    /\ pc = "idle"
    /\ \E d \in Drivers : \E mode \in ConfigModes :
        Finish(LifecycleCall("initialize", d, mode),
               initialize(d.on, consts, chainLength, mode, d.switch_pin),
               NoWait)

\* DSPIN.shutdown()
Shutdown ==
    /\ pc = "idle"
    /\ \E d \in Drivers : \E mode \in ConfigModes :
        Finish(LifecycleCall("shutdown", d, mode),
               shutdown(d.on, consts, chainLength, mode), NoWait)

\* the call `call`, which makes the transport calls `planned` when none of
\* them raises, and whose k-th one raises e
FailingCall(call, planned, k, e) ==
    [name |-> "transport_failure", on |-> "transport", kind |-> "failing",
     call |-> call, planned |-> planned, fail |-> k, raised |-> e]

\* a call of write_register or of a motion operation of the single-device
\* driver, of send_requests or of a parameterless command of the chain,
\* during which the SPI device raises
TransportFailure ==
    /\ pc = "idle"
    /\ \E e \in {"IOError", "OSError"} :
        LET Raise(call, x, w) ==
                \E k \in 1..Len(x.bus) :
                    Finish(FailingCall(call, x.bus, k, e), Failing(x, k, e), w)
        IN  \/ \E reg \in ChainWriteRegisters : \E v \in WriteValues :
                Raise([name |-> "write_register", on |-> "dev"],
                      write_register(consts, reg, v, "zero"), NoWait)
            \/ \E m \in DOMAIN MotionWaits : \E p \in DevParams :
                Raise([name |-> m, on |-> "dev"],
                      dev_motion(consts, m, p, "zero"),
                      [wait |-> MotionWaits[m], cb |-> FALSE])
            \/ \E reqs \in RequestLists(chainLength) :
                Raise([name |-> "send_requests", on |-> "chain"],
                      Xfer(consts, reqs, chainLength, "tag"),
                      [wait |-> TRUE, cb |-> TRUE])
            \/ \E m \in DOMAIN ChainSimpleMethods :
                \E dl \in DistLists(chainLength) :
                    Raise([name |-> m, on |-> "chain"],
                          send_command(consts,
                                       SimpleCommandObject(
                                           ChainSimpleMethods[m].command),
                                       dl, chainLength, "zero"),
                          [wait |-> ChainSimpleMethods[m].waits, cb |-> FALSE])

\* the variant of WaitStep that gives up after one sample of the busy pin
WaitStep_singleSample(cb, low) ==
    [again |-> FALSE, called |-> cb /\ low]

\* the variant of WaitStep whose loop with a callback also calls it after
\* the sample that ends the loop
WaitStep_callbackAfterExit(cb, low) ==
    [again |-> low, called |-> cb]

\* one test of the condition of a loop of wait_for_move_complete, and the
\* body when it holds: the loop taken when a callback was given calls it,
\* the other one only sleeps; `low` is what GPIO.input read
WaitStep(cb, low) ==
    IF cb
    THEN [again |-> low, called |-> low]
    ELSE [again |-> low, called |-> FALSE]

\* one iteration of the loop of wait_for_move_complete: the busy pin is
\* sampled; while it reads LOW the callback, if any, is called and the loop
\* goes on, otherwise the call returns
Poll ==
    /\ pc = "wait"
    /\ \E low \in BOOLEAN :
        /\ low => polls < MaxPolls
        /\ polls' = polls + 1
        /\ samples' = Append(samples, IF low THEN "LOW" ELSE "HIGH")
        /\ cbCalls' = IF WaitStep(waitCb, low).called THEN cbCalls + 1 ELSE cbCalls
        /\ pc' = IF WaitStep(waitCb, low).again THEN "wait" ELSE "done"
    /\ UNCHANGED <<chainLength, fakeGpio, consts, op, outcome, bus, requests,
                   result, waitCb, gpio>>

\* the caller is done with what the call returned, and may call again
Forget ==
    /\ pc = "done"
    /\ pc' = "idle"
    /\ op' = NoCall
    /\ outcome' = "none"
    /\ bus' = <<>>
    /\ requests' = <<>>
    /\ result' = None
    /\ waitCb' = FALSE
    /\ polls' = 0
    /\ cbCalls' = 0
    /\ samples' = <<>>
    /\ gpio' = <<>>
    /\ UNCHANGED <<chainLength, fakeGpio, consts>>

Next ==
    \/ EncodeDecode
    \/ Convert
    \/ RenderCommand
    \/ SendRequests
    \/ ChainSimple
    \/ ExpandParameters
    \/ ChainReadRegister
    \/ ChainWriteRegister
    \/ ChainMotion
    \/ DevReadRegister
    \/ DevWriteRegister
    \/ DevSetRegister
    \/ DevMotion
    \/ DevSimple
    \/ PowerOnReset
    \/ Prepare
    \/ Initialize
    \/ Shutdown
    \/ TransportFailure
    \/ Poll
    \/ Forget

Spec ==
    Init /\ [][Next]_vars

\* the operations of the single-device driver and their busy wait, the
\* process that called wait_for_move_complete being kept running: the loop
\* sleeps 0.1 s and samples the busy pin again, as long as it has not
\* returned. The busy pin reads asserted at most MaxPolls times in a wait,
\* so every wait of this specification is one whose busy signal stays
\* deasserted from some point on
LiveSpec ==
    /\ Init
    /\ [][DevMotion \/ DevSimple \/ Poll \/ Forget]_vars
    /\ WF_vars(Poll)

----------------------------------------------------------------------------
(* What the claims speak of *)

\* the bytes device i of the chain (numbered from 1) was sent by the latest
\* call: byte i of every column, in the order of the columns
SentTo(i) ==
    [j \in 1..Len(bus) |-> bus[j].out[i]]

\* the bytes the single device was sent by the latest call
SentBytes ==
    [k \in 1..Len(bus) |-> bus[k].out[1]]

\* the big-endian bytes of value mod 2^size, ceil(size / 8) of them
MaskedBigEndian(size, value) ==
    [k \in 1..((size + 7) \div 8) |->
        ((value % (2 ^ size)) \div (256 ^ (((size + 7) \div 8) - k))) % 256]

\* the SetParam request of a register: its address, then the value
SetParamBytes(reg, value) ==
    <<reg.addr>> \o MaskedBigEndian(reg.size, value)

\* the greatest length among the requests given to send_requests
GivenMaxLen ==
    CHOOSE m \in {Len(op.given[i]) : i \in DOMAIN op.given} :
        \A i \in DOMAIN op.given : Len(op.given[i]) <= m

\* every column of the latest call is one xfer2 of a byte per device
ColumnsOnly ==
    \A j \in 1..Len(bus) :
        bus[j].via = "xfer2" /\ Len(bus[j].out) = chainLength

----------------------------------------------------------------------------
(* C1: for every register descriptor and every value v of the register's
   range (0 .. 2^size - 1, or -2^(size-1) .. 2^(size-1) - 1 when the register
   is signed), parse_register_reply applied to the bytes value_as_bytes
   produced for v returns v *)
C1_RoundTrip ==
    (op.name = "value_as_bytes" /\ InRange(op.reg, op.value))
        => result.dec = op.value

\* ABS_POS (signed, 22 bits) has encoded and decoded -5
C1_Witness ==
    /\ op.name = "value_as_bytes"
    /\ op.reg = ABS_POS
    /\ op.value = -5
    /\ result.enc = <<63, 255, 251>>
    /\ result.dec = -5

(* C2: for every register descriptor and every integer value, value_as_bytes
   returns exactly ceil(size / 8) bytes, each in 0 .. 255, which are the
   big-endian bytes of the value masked to size bits (value mod 2^size); for
   the value 0 all of them are 0 *)
C2_EncodeShape ==
    op.name = "value_as_bytes" =>
        /\ Len(result.enc) = (op.reg.size + 7) \div 8
        /\ \A i \in 1..Len(result.enc) : result.enc[i] \in 0..255
        /\ result.enc = MaskedBigEndian(op.reg.size, op.value)
        /\ (op.value = 0 => \A i \in 1..Len(result.enc) : result.enc[i] = 0)

\* MAX_SPEED (10 bits) has encoded a value wider than the register
C2_Witness ==
    /\ op.name = "value_as_bytes"
    /\ op.reg = MAX_SPEED
    /\ op.value = 1025
    /\ result.enc = <<0, 1>>

(* C3: after a transfer of chainLength requests of which at least one is
   present, every slot of the request list, present or absent, has the same
   length, the greatest length among the present requests; a present slot
   holds its original bytes followed by zero bytes only, an absent slot holds
   zero bytes only *)
C3_Padding ==
    (op.name = "send_requests" /\ Len(op.requests) = chainLength
            /\ \E i \in 1..chainLength : op.given[i] # <<>>)
        => /\ outcome = "ok"
           /\ Len(requests) = chainLength
           /\ \A i \in 1..chainLength :
                LET after == Deref(consts, requests[i])
                    before == op.given[i]
                IN  /\ Len(after) = GivenMaxLen
                    /\ \A k \in 1..Len(after) :
                        after[k] = IF k <= Len(before) THEN before[k] ELSE 0

\* a chain of 4 was given requests of 1 and 3 bytes, no request, and a
\* request of 2 bytes, and the shorter ones were padded
C3_Witness ==
    /\ op.name = "send_requests"
    /\ outcome = "ok"
    /\ chainLength = 4
    /\ [i \in 1..4 |-> Len(op.given[i])] = <<1, 3, 0, 2>>
    /\ op.requests[3].kind = "none"
    /\ [i \in 1..4 |-> Len(requests[i].bytes)] = <<3, 3, 3, 3>>
    /\ requests[4].bytes = <<10, 41, 0>>

(* C4: the result of a transfer has one entry per slot; the entry of an
   absent slot is None whatever the transport answered; the entry of the
   present slot i has as many bytes as the longest request, and its j-th byte
   is the byte the transport answered at position i of column j *)
C4_Replies ==
    (op.name = "send_requests" /\ outcome = "ok")
        => /\ Len(result) = chainLength
           /\ \A i \in 1..chainLength :
                IF op.given[i] = <<>>
                THEN result[i] = None
                ELSE /\ result[i] # None
                     /\ Len(result[i][1]) = GivenMaxLen
                     /\ \A j \in 1..GivenMaxLen :
                            result[i][1][j] = bus[j].in[i]

\* a chain of 4 was given requests of lengths 1, 3, none, 2 and the
\* transport answered different bytes everywhere
C4_Witness ==
    /\ op.name = "send_requests"
    /\ outcome = "ok"
    /\ chainLength = 4
    /\ [i \in 1..4 |-> Len(op.given[i])] = <<1, 3, 0, 2>>
    /\ bus[1].in = <<17, 18, 19, 20>>
    /\ bus[3].in[3] = 51
    /\ result = <<Some(<<17, 33, 49>>), Some(<<18, 34, 50>>), None,
                  Some(<<20, 36, 52>>)>>

(* C5: a transaction of the chain (a transfer of per-device requests, or a
   broadcast) whose padded requests have L bytes is handed to the transport
   as exactly L columns, in the order of the bytes, each of exactly
   chainLength bytes; column j holds byte j of the request of every device,
   in the order of the devices *)
C5_Columns ==
    (op.on = "chain" /\ outcome = "ok")
        => /\ Len(requests) = chainLength
           /\ \A i \in 1..chainLength :
                Len(Deref(consts, requests[i])) = Len(bus)
           /\ Len(bus) >= 1
           /\ \A j \in 1..Len(bus) :
                /\ bus[j].via = "xfer2"
                /\ bus[j].out =
                        [i \in 1..chainLength |-> Deref(consts, requests[i])[j]]

\* GetStatus was broadcast on a chain of 3: 3 columns of 3 bytes
C5_Witness ==
    /\ op.name = "clear_status"
    /\ op.on = "chain"
    /\ op.dist_list = None
    /\ chainLength = 3
    /\ [j \in 1..Len(bus) |-> bus[j].out] =
            <<<<208, 208, 208>>, <<0, 0, 0>>, <<0, 0, 0>>>>
    /\ \A i \in 1..3 : requests[i].bytes = <<208, 0, 0>>

(* C6: when a parameterless command is sent with a non-empty distribution
   list, every device of the list is sent exactly the bytes of the command
   and every other device is sent NOP bytes only, as many as the command has
   bytes, all of it in one transfer of columns *)
C6_Targeted ==
    (op.on = "chain" /\ op.kind = "simple" /\ op.dist_list # None
            /\ op.dist_list[1] # {})
        => LET c == SimpleCommands[op.command]
               rendered == <<c.opcode>> \o [k \in 1..(c.size - 1) |-> 0]
           IN  /\ outcome = "ok"
               /\ ColumnsOnly
               /\ Len(bus) = c.size
               /\ \A i \in 1..chainLength :
                    SentTo(i) = IF (i - 1) \in op.dist_list[1]
                                THEN rendered
                                ELSE [k \in 1..c.size |-> OpCodes.NOP]

\* GetStatus was sent to device 1 only of a chain of 3
C6_Witness ==
    /\ op.name = "clear_status"
    /\ op.on = "chain"
    /\ chainLength = 3
    /\ op.dist_list = Some({1})
    /\ SentTo(1) = <<0, 0, 0>>
    /\ SentTo(2) = <<208, 0, 0>>
    /\ SentTo(3) = <<0, 0, 0>>

(* C7: a transfer whose request list has not chainLength entries is rejected
   with an error, and nothing is handed to the transport *)
C7_LengthRejected ==
    (op.name = "send_requests" /\ Len(op.requests) # chainLength)
        => outcome = "ValueError" /\ bus = <<>> /\ pc = "done"

\* a list one longer than the chain, with a request in it, was rejected
C7_Witness ==
    /\ op.name = "send_requests"
    /\ Len(op.requests) = chainLength + 1
    /\ \E i \in 1..Len(op.requests) : op.given[i] # <<>>
    /\ outcome = "ValueError"
    /\ bus = <<>>

\* what C8 says of a scalar and of a sequence of the wrong length
C8_ScalarAndMismatch ==
    /\ op.data.scalar =>
        /\ outcome = "ok"
        /\ ColumnsOnly
        /\ \A i \in 1..chainLength :
                SentTo(i) = SetParamBytes(op.reg, op.data.v)
    /\ (~op.data.scalar /\ Len(op.data.seq) # chainLength) =>
        outcome = "ValueError" /\ bus = <<>>

\* what C8 says of a sequence of chainLength entries
C8_PerDevice ==
    /\ outcome = "ok"
    /\ ColumnsOnly
    /\ \A i \in 1..chainLength :
        SentTo(i) = IF op.data.seq[i] # None
                    THEN SetParamBytes(op.reg, op.data.seq[i][1])
                    ELSE [k \in 1..Len(bus) |-> 0]

(* C8 as it is stated: the chain's write_register sends the same SetParam
   request to every device when given a scalar; given a sequence of
   chainLength entries it sends SetParam(value) to every device whose entry
   is not None and zero bytes only to every device whose entry is None; a
   sequence of another length is rejected with an error before anything is
   transferred, and is not broadcast *)
C8_AsStated ==
    (op.name = "write_register" /\ op.on = "chain")
        => /\ C8_ScalarAndMismatch
           /\ (~op.data.scalar /\ Len(op.data.seq) = chainLength)
                => C8_PerDevice

(* C8 as amended: the same, for a sequence of chainLength entries of which at
   least one is not None; a sequence whose entries are all None is rejected
   with an error before anything is transferred *)
C8_Amended ==
    (op.name = "write_register" /\ op.on = "chain")
        => /\ C8_ScalarAndMismatch
           /\ (~op.data.scalar /\ Len(op.data.seq) = chainLength)
                => IF \E i \in 1..chainLength : op.data.seq[i] # None
                   THEN C8_PerDevice
                   ELSE outcome = "ValueError" /\ bus = <<>>

\* MAX_SPEED was written on a chain of 3 with 500 for device 0, nothing for
\* device 1 and 5 for device 2
C8_Witness ==
    /\ op.name = "write_register"
    /\ op.on = "chain"
    /\ chainLength = 3
    /\ op.reg = MAX_SPEED
    /\ op.data.seq = <<Some(500), None, Some(5)>>
    /\ SentTo(1) = <<7, 1, 244>>
    /\ SentTo(2) = <<0, 0, 0>>
    /\ SentTo(3) = <<7, 0, 5>>

(* C9: write_register of the single-device driver, given a read-only
   register (SPEED, ADC_OUT, STATUS), is rejected and transfers no byte;
   given a writable register it transfers exactly the SetParam request *)
C9_ReadOnlyRejected ==
    (op.name = "write_register" /\ op.on = "dev")
        => IF op.reg.read_only
           THEN outcome # "ok" /\ bus = <<>>
           ELSE outcome = "ok" /\ SentBytes = SetParamBytes(op.reg, op.value)

\* whether the parameters p the method `name` constructs its command from
\* are all valid: the direction FWD or REV, the action COPY or RESET, the
\* speed in 1 .. 0x3fffff
ValidFor(name, p) ==
    /\ name \in {"run", "step_clock", "move", "goto_dir", "go_until", "release_sw"}
        => p.direction \in {0, 1}
    /\ name \in {"go_until", "release_sw"} => p.action \in {0, 8}
    /\ name \in {"run", "go_until"} => (1 <= p.speed /\ p.speed <= 4194303)

\* whether the chain's method `name` constructs a command for a device with
\* the optional parameters p: none of those it tests is None
NamedFor(name, p) ==
    /\ name \in {"run", "step_clock", "move", "goto_dir", "go_until", "release_sw"}
        => p.direction # None
    /\ name \in {"go_until", "release_sw"} => p.action # None
    /\ name \in {"run", "go_until"} => p.speed # None
    /\ name \in {"move", "goto", "goto_dir"} => p.position # None

Plain(p) ==
    [action |-> IF p.action = None THEN 0 ELSE p.action[1],
     direction |-> IF p.direction = None THEN 0 ELSE p.direction[1],
     speed |-> IF p.speed = None THEN 1 ELSE p.speed[1],
     position |-> IF p.position = None THEN 0 ELSE p.position[1]]

\* whether the chain's method `name` was given, for a device with the
\* optional parameters p, a direction, an action or a speed that is not valid
GivenInvalid(name, p) ==
    \/ /\ name \in {"run", "step_clock", "move", "goto_dir", "go_until", "release_sw"}
       /\ p.direction # None
       /\ p.direction[1] \notin {0, 1}
    \/ /\ name \in {"go_until", "release_sw"}
       /\ p.action # None
       /\ p.action[1] \notin {0, 8}
    \/ /\ name \in {"run", "go_until"}
       /\ p.speed # None
       /\ ~(1 <= p.speed[1] /\ p.speed[1] <= 4194303)

\* what C10 says of the single-device driver: an invalid direction, action
\* or speed raises the invalid-parameter error and nothing is transferred;
\* valid parameters are constructed, rendered and transferred as a request
\* of 1 to 4 bytes
C10_Driver ==
    IF ValidFor(op.name, op.params)
    THEN /\ outcome = "ok"
         /\ Len(bus) \in 1..4
         /\ \A k \in 1..Len(bus) : bus[k].out[1] \in 0..255
    ELSE outcome = "ValueError" /\ bus = <<>>

(* C10 as it is stated: a command is not constructed from a direction other
   than FWD and REV, an action other than COPY and RESET or a speed outside
   1 .. 0x3fffff; an operation of the driver, or of the chain, that is given
   such a parameter for any device raises the invalid-parameter error and
   hands nothing to the transport *)
C10_AsStated ==
    op.kind = "motion"
        => IF op.on = "dev"
           THEN C10_Driver
           ELSE (\E i \in 1..chainLength : GivenInvalid(op.name, op.params[i]))
                    => outcome = "ValueError" /\ bus = <<>>

(* C10 as amended: the same, for the devices of the chain the operation
   constructs a command for, those none of whose parameters is None; what is
   given for a device it constructs no command for is not looked at, and
   when no command is constructed from an invalid parameter the operation
   raises no invalid-parameter error *)
C10_InvalidParameters ==
    op.kind = "motion"
        => IF op.on = "dev"
           THEN C10_Driver
           ELSE IF \E i \in 1..chainLength :
                        /\ NamedFor(op.name, op.params[i])
                        /\ ~ValidFor(op.name, Plain(op.params[i]))
                THEN outcome = "ValueError" /\ bus = <<>>
                ELSE outcome # "ValueError"

\* the chain's go_until was given an invalid action for its last device and
\* valid parameters for the first one
C10_Witness ==
    /\ op.name = "go_until"
    /\ op.on = "chain"
    /\ op.params[1].direction = Some(1)
    /\ op.params[1].speed = Some(100)
    /\ op.params[chainLength].action = Some(4)
    /\ outcome = "ValueError"
    /\ bus = <<>>

----------------------------------------------------------------------------
(* The command model *)

\* the latest call constructed a command of one of the classes `classes`
Constructing(classes) ==
    op.kind = "render" /\ op.call.cls \in classes

\* the latest call constructed and rendered a command of one of `classes`
Rendering(classes) ==
    Constructing(classes) /\ outcome = "ok"

(* C11: constructing a SimpleCommand or a Nop with a value that is no opcode,
   or with a size that is negative or zero, raises the invalid-parameter
   error; for every size S that is accepted the request rendered has exactly
   S bytes, and the S bytes of a Nop are the same filler byte *)
C11_SizeRejected ==
    Constructing({"SimpleCommand", "Nop"})
        => IF \/ op.call.cls = "SimpleCommand" /\ op.call.opcode \in {1, 255}
              \/ op.call.size <= 0
           THEN outcome = "ValueError" /\ result = None
           ELSE /\ outcome = "ok"
                /\ Len(result[1]) = op.call.size
                /\ op.call.cls = "Nop" =>
                        \A k \in 1..Len(result[1]) : result[1][k] = 0

(* C12: for every register, the SetParam request is the byte SET_PARAM |
   address followed by the encoded value, the GetParam request is the byte
   0x20 | address followed by ceil(size / 8) zero bytes; both have
   1 + ceil(size / 8) bytes; and no other pair of a kind (SetParam,
   GetParam) and a register has the same leading byte *)
C12_ParamRequests ==
    Constructing({"SetParam", "GetParam"})
        => LET reg == op.call.reg
               n == (reg.size + 7) \div 8
           IN  /\ outcome = "ok"
               /\ Len(result[1]) = 1 + n
               /\ op.call.cls = "SetParam" =>
                    result[1] = <<reg.addr>> \o MaskedBigEndian(reg.size, op.call.value)
               /\ op.call.cls = "GetParam" =>
                    result[1] = <<32 + reg.addr>> \o [k \in 1..n |-> 0]
               /\ \A cls \in {"SetParam", "GetParam"} : \A r \in Registers :
                    LET other == Construct([NoArgs EXCEPT !.cls = cls, !.reg = r])
                    IN  Render(consts, other.cmd)[1] = result[1][1]
                            => cls = op.call.cls /\ r = reg

\* GetParam(CONFIG) was rendered
C12_Witness ==
    /\ Rendering({"GetParam"})
    /\ op.call.reg = CONFIG
    /\ result = Some(<<56, 0, 0>>)

\* the opcode of each class that has a direction or a position
OwnOpcode ==
    [Run |-> 80, StepClock |-> 88, Move |-> 64, GoTo |-> 96, GoToDir |-> 104,
     GoUntil |-> 130, ReleaseSW |-> 146]

\* the 3 bytes of v, most significant first
ThreeBytes(v) ==
    <<(v \div 65536) % 256, (v \div 256) % 256, v % 256>>

(* C13: for Run, Move, GoToDir, GoUntil and ReleaseSW with valid parameters,
   the first byte of the request is the opcode of the class with the
   direction bit and, for GoUntil and ReleaseSW, the action bit set in it;
   the bytes after it are the 3 bytes, most significant first, of the speed
   code (Run, GoUntil) or of the number of steps or the position as the
   22 bit register holds it (Move, GoToDir); ReleaseSW has no other byte;
   GoTo is its opcode followed by the 3 bytes of the position *)
C13_MotionRequests ==
    Rendering({"Run", "Move", "GoTo", "GoToDir", "GoUntil", "ReleaseSW"})
        => LET c == op.call
               lead == OwnOpcode[c.cls]
                        + (IF c.cls = "GoTo" THEN 0 ELSE c.direction)
                        + (IF c.cls \in {"GoUntil", "ReleaseSW"} THEN c.action ELSE 0)
               tail == CASE c.cls \in {"Run", "GoUntil"} ->
                                ThreeBytes(spd_calc(c.speed))
                         [] c.cls = "Move" ->
                                ThreeBytes(Abs(c.position) % 4194304)
                         [] c.cls \in {"GoTo", "GoToDir"} ->
                                ThreeBytes(c.position % 4194304)
                         [] c.cls = "ReleaseSW" -> <<>>
           IN  result[1] = <<lead>> \o tail

\* GoUntil(COPY, FWD, 100) was rendered: 0x82 | 0x01 | 0x08, then the speed
\* code 6710
C13_Witness ==
    /\ Rendering({"GoUntil"})
    /\ op.call.action = 8
    /\ op.call.direction = 1
    /\ op.call.speed = 100
    /\ result = Some(<<139, 0, 26, 54>>)

(* C14: for both directions, the StepClock request is the single byte
   STEP_CLOCK (0x58) | direction, which is not the leading byte of any Run
   request *)
C14_StepClockOpcode ==
    Rendering({"StepClock"})
        => /\ result[1] = <<88 + op.call.direction>>
           /\ \A d \in {0, 1} : \A v \in RenderSpeeds :
                Render(consts, Run(d, v).cmd)[1] # result[1][1]

(* C15: rendering does not depend on when it is done: whatever operations of
   the driver and of the chain came before, the request a command renders is
   the request the same command renders right after the import of the
   module *)
C15_Deterministic ==
    Rendering({"SimpleCommand", "Nop", "SetParam", "GetParam", "Run",
               "StepClock", "Move", "GoTo", "GoToDir", "GoUntil", "ReleaseSW"})
        => result = Some(Render(ConstRequests, Construct(op.call).cmd))

\* GO_HOME was rendered again after a transfer of the chain had padded the
\* module-level GO_HOME_REQUEST
C15_Witness ==
    /\ Rendering({"SimpleCommand"})
    /\ op.call.opcode = 112
    /\ op.call.size = 1
    /\ consts.GO_HOME_REQUEST = <<112, 0, 0>>
    /\ result = Some(<<112>>)

(* C16: the module-level request lists (NOP_1_REQUEST .. NOP_4_REQUEST, the
   requests of the eight parameterless opcodes, GET_STATUS_REQUEST) never
   change: after any operations each is what its command renders; and a
   transfer of the chain leaves the request list of its caller as it was *)
C16_ConstantsImmutable ==
    /\ consts = ConstRequests
    /\ (op.name = "send_requests" /\ outcome = "ok") => requests = op.requests


----------------------------------------------------------------------------
(* expand_parameters *)

\* the number of parameters of the entry of device m of the dictionary given
\* to the latest call: a bare value counts as a tuple of one
GivenArity(m) ==
    IF op.p_dict[m].scalar THEN 1 ELSE Len(op.p_dict[m].t)

\* every entry of the dictionary has as many parameters as every other
SameArity ==
    \A m, n \in DOMAIN op.p_dict : GivenArity(m) = GivenArity(n)

(* C17: expand_parameters, given a non-empty dictionary from device numbers
   to tuples that all have k parameters, returns exactly k vectors of
   chainLength entries; entry d of vector p is parameter p of device d when
   the dictionary names d, and None otherwise; a bare value is taken for a
   tuple of one *)
C17_Expanded ==
    (op.kind = "expand" /\ SameArity)
        => /\ outcome = "ok"
           /\ result # None
           /\ \A m \in DOMAIN op.p_dict :
                /\ Len(result[1]) = GivenArity(m)
                /\ \A p \in 1..GivenArity(m) :
                        result[1][p][m + 1] = Some(op.p_dict[m].t[p])
           /\ \A p \in 1..Len(result[1]) :
                /\ Len(result[1][p]) = chainLength
                /\ \A d \in 1..chainLength :
                        (d - 1) \notin DOMAIN op.p_dict => result[1][p][d] = None

\* on a chain of 3, {1: (5, 7)} was expanded
C17_Witness ==
    /\ op.kind = "expand"
    /\ chainLength = 3
    /\ DOMAIN op.p_dict = {1}
    /\ op.p_dict[1] = [scalar |-> FALSE, t |-> <<5, 7>>]
    /\ result = Some(<< <<None, Some(5), None>>, <<None, Some(7), None>> >>)

(* C18: expand_parameters raises the invalid-parameters error whenever two
   entries of the dictionary differ in their number of parameters, whichever
   entry the dictionary yields first, and returns nothing *)
C18_ArityMismatch ==
    (op.kind = "expand" /\ ~SameArity)
        => outcome = "ValueError" /\ result = None

\* {0: (5, 7), 1: 5} was rejected, the tuple of two being the first entry
C18_Witness ==
    /\ op.kind = "expand"
    /\ DOMAIN op.p_dict = {0, 1}
    /\ op.p_dict[0] = [scalar |-> FALSE, t |-> <<5, 7>>]
    /\ op.p_dict[1] = [scalar |-> TRUE, t |-> <<5>>]
    /\ op.first = 0
    /\ outcome = "ValueError"



(* The busy wait *)

\* the operations of the single-device driver that C19 names
MotionOperations ==
    {"run", "move", "goto", "goto_dir", "go_home", "go_mark", "go_until",
     "release_sw", "soft_stop", "hard_stop", "soft_hi_Z", "hard_hi_Z",
     "reset_pos", "reset_device"}

\* those of them that take wait and wait_cb
WaitingOperations ==
    {"move", "goto", "goto_dir", "go_home", "go_mark", "go_until",
     "release_sw", "soft_stop", "soft_hi_Z"}

\* the call under way or returned is one of these operations of the
\* single-device driver, and its request was accepted
MotionCall(names) ==
    /\ op.on = "dev"
    /\ op.kind \in {"motion", "simple"}
    /\ op.name \in names
    /\ outcome = "ok"

\* the busy pin was sampled, and last read deasserted
SampledDeasserted ==
    /\ samples # <<>>
    /\ samples[Len(samples)] = "HIGH"

\* C19 as the spec states it: every motion operation of the single-device
\* driver it lists has transferred its request when it has returned, has
\* sampled the busy pin deasserted unless the caller suppressed the wait,
\* and has not sampled the busy pin when the caller suppressed the wait
C19_AsStated ==
    (MotionCall(MotionOperations) /\ pc = "done") =>
        /\ bus # <<>>
        /\ IF op.name \in WaitingOperations /\ ~op.wait
           THEN samples = <<>>
           ELSE SampledDeasserted

\* C19: move, goto, goto_dir, go_home, go_mark, go_until, release_sw,
\* soft_stop and soft_hi_Z transfer their request and then, when the wait is
\* not suppressed and the GPIO module is not the fake one, do not return
\* while the busy pin reads asserted and have sampled it deasserted when
\* they return; when the wait is suppressed or the GPIO module is the fake
\* one they return without sampling the busy pin; run, hard_stop, hard_hi_Z,
\* reset_pos and reset_device take no wait argument and always return after
\* the transfer without sampling the busy pin
C19_Waits ==
    MotionCall(MotionOperations) =>
        /\ bus # <<>>
        /\ IF op.name \in WaitingOperations /\ op.wait /\ ~fakeGpio
           THEN /\ pc = "wait" => \A i \in 1..Len(samples) : samples[i] = "LOW"
                /\ pc = "done" => SampledDeasserted
           ELSE pc = "done" /\ samples = <<>>

\* move has returned from a wait on real pins in which the busy pin read
\* asserted, then deasserted
C19_Witness ==
    /\ MotionCall({"move"})
    /\ op.wait
    /\ ~fakeGpio
    /\ pc = "done"
    /\ samples = <<"LOW", "HIGH">>

\* the number of samples of the busy pin that read asserted
RECURSIVE LowSamples(_)
LowSamples(s) ==
    IF s = <<>>
    THEN 0
    ELSE (IF Head(s) = "LOW" THEN 1 ELSE 0) + LowSamples(Tail(s))

\* the samples of a wait: the busy pin read asserted every time but the
\* last, and the wait returned on the first sample that read deasserted
WaitSamples ==
    /\ \A i \in 1..(Len(samples) - 1) : samples[i] = "LOW"
    /\ pc = "done" <=> SampledDeasserted

\* C20: in a wait on real pins, the callback has been called once for each
\* sample of the busy pin that read asserted and not for the sample that
\* read deasserted, and no callback means no call; with and without a
\* callback the wait goes on after each asserted sample and returns on the
\* first deasserted one
C20_CallbackPerSample ==
    (pc = "wait" \/ samples # <<>>) =>
        /\ ~fakeGpio
        /\ cbCalls = (IF waitCb THEN LowSamples(samples) ELSE 0)
        /\ WaitSamples

\* a wait with a callback returned on the third sample, after two calls of
\* the callback
C20_Witness ==
    /\ waitCb
    /\ pc = "done"
    /\ samples = <<"LOW", "LOW", "HIGH">>
    /\ cbCalls = 2


----------------------------------------------------------------------------
(* The operations of the chain, continued *)

\* whether the chain's release_sw was given both an action and a direction
\* for the device with the optional parameters p
ReleaseNamed(p) ==
    p.action # None /\ p.direction # None

(* C27: the chain's release_sw, given for every device an action and a
   direction that are valid or None, at least one device being given both,
   does one transfer of columns without an error; every device given both
   receives the byte 0x92 | direction | action followed by zeros only, and
   every other device receives zeros only *)
C27_ReleaseSwitch ==
    (/\ op.on = "chain"
     /\ op.name = "release_sw"
     /\ \A i \in 1..chainLength : ~GivenInvalid(op.name, op.params[i])
     /\ \E i \in 1..chainLength : ReleaseNamed(op.params[i]))
        => /\ outcome = "ok"
           /\ bus # <<>>
           /\ ColumnsOnly
           /\ \A i \in 1..chainLength :
                SentTo(i) =
                    IF ReleaseNamed(op.params[i])
                    THEN <<BitOr(BitOr(OpCodes.RELEASE_SW, op.params[i].direction[1]),
                                 op.params[i].action[1])>>
                            \o [k \in 1..(Len(bus) - 1) |-> 0]
                    ELSE [k \in 1..Len(bus) |-> 0]

(* C28: a parameterless command of the chain that is given a distribution
   list, the empty one included, sends to every device that is not in the
   list NOP bytes only *)
C28_ExactlyListed ==
    (op.on = "chain" /\ op.kind = "simple" /\ op.dist_list # None)
        => /\ outcome = "ok"
           /\ \A i \in 1..chainLength :
                (i - 1) \notin op.dist_list[1]
                    => \A j \in 1..Len(bus) : bus[j].out[i] = OpCodes.NOP

\* whether the latest call is a transfer of the chain that was given
\* chainLength slots, every one of them None or an empty list
AllAbsent ==
    \/ /\ op.name = "send_requests"
       /\ op.kind = "requests"
       /\ Len(op.requests) = chainLength
       /\ \A i \in 1..chainLength :
            op.requests[i].kind \in {"none", "list"} /\ op.given[i] = <<>>
    \/ /\ op.name = "write_register"
       /\ op.on = "chain"
       /\ ~op.data.scalar
       /\ Len(op.data.seq) = chainLength
       /\ \A i \in 1..chainLength : op.data.seq[i] = None

(* C29: a transfer of the chain whose chainLength slots are all None or
   empty, the write of a register with None for every device among them,
   raises an error, hands no column to the transport, returns no list of
   replies and does not enter the wait *)
C29_AllAbsent ==
    AllAbsent =>
        /\ outcome = "ValueError"
        /\ bus = <<>>
        /\ result = <<>>
        /\ pc # "wait"

\* send_requests was given None and an empty list on a chain of 2
C29_Witness ==
    /\ op.name = "send_requests"
    /\ chainLength = 2
    /\ op.requests = <<NoneSlot, ListSlot(<<>>)>>
    /\ outcome = "ValueError"
    /\ bus = <<>>


----------------------------------------------------------------------------
(* The derived conversions *)

\* the register each conversion computes a value for, and its scale as
\* whole, thousandths and millionths
ConversionOf ==
    [acc_calc |-> [reg |-> ACC, scale |-> <<0, 137, 438>>],
     dec_calc |-> [reg |-> DEC, scale |-> <<0, 137, 438>>],
     max_spd_calc |-> [reg |-> MAX_SPEED, scale |-> <<0, 65, 536>>],
     min_spd_calc |-> [reg |-> MIN_SPEED, scale |-> <<4, 194, 300>>],
     fs_spd_calc |-> [reg |-> FS_SPD, scale |-> <<0, 65, 536>>],
     int_spd_calc |-> [reg |-> INT_SPD, scale |-> <<4, 194, 300>>],
     spd_calc |-> [reg |-> SPEED, scale |-> <<67, 106, 0>>]]

\* floor(|physical| * scale) of the latest conversion
ScaledMagnitude ==
    LET s == ConversionOf[op.name].scale
    IN  FloorTimes(Abs(op.physical), s[1], s[2], s[3])

\* whether |physical| * scale is an integer
ExactProduct ==
    LET s == ConversionOf[op.name].scale
        a == Abs(op.physical)
    IN  /\ (a * s[3]) % 1000 = 0
        /\ (a * s[2] + ((a * s[3]) \div 1000)) % 1000 = 0

(* C26 as it is stated: every conversion returns, for a physical value of
   either sign, min(floor(|physical| * scale), 2^size - 1), size being the
   number of bits of the register *)
C26_AsStated ==
    op.kind = "calc" =>
        result = Some(Min(ScaledMagnitude,
                          2 ^ ConversionOf[op.name].reg.size - 1))

(* C26 as amended: the result of every conversion lies between 0 and the
   largest value of the register's width, and between 0 and 0x0fff for
   MIN_SPEED; it is
   min(floor(|physical| * scale), 2^size - 1) for ACC, DEC, MAX_SPEED and
   INT_SPD, min(floor(|physical| * scale), 0x0fff) for MIN_SPEED,
   min(max(0, floor(|physical| * scale - 0.5)), 2^size - 1) for FS_SPD, and
   for SPEED min(floor(|physical| * scale), 2^size - 1) or, only where
   |physical| * scale is an integer below the maximum, possibly one less *)
C26_Conversions ==
    op.kind = "calc" =>
        LET max == 2 ^ ConversionOf[op.name].reg.size - 1
            floor == ScaledMagnitude
            twice == FloorTimes(2 * Abs(op.physical), 0, 65, 536)
        IN  /\ result # None
            /\ result[1] >= 0
            /\ result[1] <= max
            /\ CASE op.name = "min_spd_calc" ->
                        result[1] = Min(floor, 4095)
                 [] op.name = "fs_spd_calc" ->
                        result[1] = Min(IF twice = 0 THEN 0 ELSE (twice - 1) \div 2,
                                        max)
                 [] op.name = "spd_calc" ->
                        \/ result[1] = Min(floor, max)
                        \/ ExactProduct /\ floor <= max /\ result[1] = floor - 1
                 [] OTHER ->
                        result[1] = Min(floor, max)

\* min_spd_calc of -978 steps/s, whose product is 4102, gave 0x0fff
C26_Witness ==
    /\ op.name = "min_spd_calc"
    /\ op.physical = -978
    /\ result = Some(4095)


----------------------------------------------------------------------------
(* The shape of the transfers of the single-device driver *)

\* the latest call is a transfer of the single-device driver that was made
DevTransfer ==
    op.on = "dev" /\ outcome = "ok"

\* the number of bytes of the request of the latest call of the
\* single-device driver
DevRequestLength ==
    CASE op.kind \in {"write", "read"} -> 1 + BytesCnt(op.reg)
      [] op.kind = "simple" -> Len(consts[SimpleCommands[op.command].request])
      [] op.kind = "motion" ->
            IF op.name \in {"step_clock", "release_sw"} THEN 1 ELSE 4

(* C25 as it is stated: a request of the single-device driver of more than
   one byte (SetParam, GetParam, GetStatus, Run, Move, GoTo, GoToDir,
   GoUntil) is handed to the transport as one exchange of the whole
   request *)
C25_AsStated ==
    (DevTransfer /\ DevRequestLength > 1)
        => Len(bus) = 1 /\ Len(bus[1].out) = DevRequestLength

(* C25 as amended: every request of the single-device driver, of one byte or
   of several, is handed to the transport byte by byte, in as many exchanges
   of one byte as the request has bytes, through the toggle-per-byte method
   and never through the hold-across-message one *)
C25_TogglePerByte ==
    DevTransfer
        => /\ Len(bus) = DevRequestLength
           /\ \A k \in 1..Len(bus) :
                bus[k].via = "xfer" /\ Len(bus[k].out) = 1 /\ Len(bus[k].in) = 1

\* GetParam(CONFIG) was transferred in three exchanges of one byte
C25_Witness ==
    /\ DevTransfer
    /\ op.name = "read_register"
    /\ op.reg = CONFIG
    /\ Len(bus) = 3
    /\ SentBytes = <<56, 0, 0>>
    /\ \A k \in 1..3 : bus[k].via = "xfer"


----------------------------------------------------------------------------
(* The lifecycle *)

\* the latest call is one of these operations of the lifecycle
Lifecycle(names) ==
    op.kind = "lifecycle" /\ op.name \in names

\* the positions, in a transport call, of the devices of the driver called
DevicesOnBus ==
    IF op.driver = "dev" THEN {1} ELSE 1..chainLength

\* the two bytes device i answered after the first byte of the first
\* request, as a 16-bit value
ConfigReadBack(i) ==
    bus[2].in[i] * 256 + bus[3].in[i]

\* the position of the last call of GPIO.output on the standby pin, 0 when
\* there is none
LastStandbyOutput ==
    LET outs == {i \in 1..Len(gpio) :
                    gpio[i].call = "output" /\ gpio[i].pin = "standby"}
    IN  IF outs = {} THEN 0 ELSE CHOOSE i \in outs : \A j \in outs : j <= i

\* the bytes that GetStatus and then HardHiZ make
StatusThenHiZ ==
    <<OpCodes.GET_STATUS, 0, 0, OpCodes.HARD_HIZ>>

(* C22: prepare, alone or at the end of initialize, raises no exception and
   returns a boolean, which is True exactly when the value of CONFIG read
   back is 0x2E88, for every device when the driver is a chain *)
C22_PrepareReports ==
    Lifecycle({"prepare", "initialize"}) =>
        /\ outcome = "ok"
        /\ result \in BOOLEAN
        /\ Len(bus) >= 3
        /\ result <=> \A i \in DevicesOnBus : ConfigReadBack(i) = 11912

\* initialize of a chain of 3 returned False because the last device alone
\* answered 0x2E89
C22_Witness ==
    /\ Lifecycle({"initialize"})
    /\ op.driver = "chain"
    /\ chainLength = 3
    /\ outcome = "ok"
    /\ ConfigReadBack(1) = 11912
    /\ ConfigReadBack(2) = 11912
    /\ ConfigReadBack(3) = 11913
    /\ result = FALSE

(* C23: power_on_reset, alone or at the start of initialize, sets up the
   standby pin and the busy pin, then opens the SPI device, then drives the
   standby pin low and afterwards high; its last output on the standby pin
   is high, and no call of the transport is made before it *)
C23_PowerOnOrder ==
    Lifecycle({"power_on_reset", "initialize"}) =>
        /\ outcome = "ok"
        /\ \E s, b, o, l, h \in 1..Len(gpio) :
            /\ gpio[s].call = "setup" /\ gpio[s].pin = "standby"
            /\ gpio[b].call = "setup" /\ gpio[b].pin = "busyn"
            /\ gpio[o].call = "open"
            /\ \A i \in 1..Len(gpio) : gpio[i].call = "setup" => i < o
            /\ gpio[l] = GpioCall("output", "standby", "LOW", 0)
            /\ gpio[h] = GpioCall("output", "standby", "HIGH", 0)
            /\ o < l
            /\ l < h
            /\ h = LastStandbyOutput
        /\ \A i \in 1..Len(gpio) : gpio[i].sent = 0

\* initialize of a device with a switch pin did its seven calls of the GPIO
\* module and of open, then the seven bytes of GetParam(CONFIG), HardHiZ
\* and GetStatus, and returned True
C23_Witness ==
    /\ Lifecycle({"initialize"})
    /\ op.driver = "dev"
    /\ op.switch_pin
    /\ Len(gpio) = 7
    /\ gpio[4].call = "open"
    /\ gpio[7] = GpioCall("output", "standby", "HIGH", 0)
    /\ SentBytes = <<56, 0, 0, 168, 208, 0, 0>>
    /\ result = TRUE

(* C30: shutdown transfers GetStatus, then HardHiZ, then drives the standby
   pin low: that output is its only call of the GPIO module and every call
   of the transport was made before it *)
C30_ShutdownOrder ==
    Lifecycle({"shutdown"}) =>
        /\ outcome = "ok"
        /\ IF op.driver = "dev"
           THEN SentBytes = consts.GET_STATUS_REQUEST \o consts.HARD_HIZ_REQUEST
           ELSE /\ \A j \in 1..Len(bus) : Len(bus[j].out) = chainLength
                /\ \A i \in 1..chainLength : SentTo(i) = StatusThenHiZ
        /\ Len(bus) >= 4
        /\ gpio = <<GpioCall("output", "standby", "LOW", Len(bus))>>

\* shutdown of a chain of 2: four columns, then standby
C30_Witness ==
    /\ Lifecycle({"shutdown"})
    /\ op.driver = "chain"
    /\ chainLength = 2
    /\ SentTo(1) = StatusThenHiZ
    /\ SentTo(2) = StatusThenHiZ
    /\ gpio = <<GpioCall("output", "standby", "LOW", 4)>>


----------------------------------------------------------------------------
(* Failures of the transport *)

(* C24: an operation that completes has handed every byte of its request
   (single device) or every column of its padded requests (chain) to the
   transport once, in order; when a call of the transport raises, the
   operation raises the same exception, the calls made are exactly those
   up to the one that raised, each made once, none of the later ones is
   made, nothing is returned and the busy wait is not entered *)
C24_NoRetry ==
    /\ (op.on = "chain" /\ outcome = "ok") =>
            /\ \A i \in 1..Len(requests) :
                    Len(Deref(consts, requests[i])) = Len(bus)
            /\ \A j \in 1..Len(bus) :
                    bus[j].out = [i \in 1..Len(requests) |->
                                    Deref(consts, requests[i])[j]]
    /\ DevTransfer =>
            /\ Len(bus) = DevRequestLength
            /\ \A k \in 1..Len(bus) : Len(bus[k].out) = 1
    /\ op.kind = "failing" =>
            /\ outcome = op.raised
            /\ Len(bus) = op.fail
            /\ op.fail <= Len(op.planned)
            /\ \A j \in 1..Len(bus) :
                    /\ bus[j].via = op.planned[j].via
                    /\ bus[j].out = op.planned[j].out
            /\ result = None
            /\ pc = "done"
            /\ samples = <<>>

\* on real pins, send_requests of a chain of 2 that was to transfer three
\* columns and wait: the second column raised OSError
C24_Witness ==
    /\ op.kind = "failing"
    /\ op.call = [name |-> "send_requests", on |-> "chain"]
    /\ chainLength = 2
    /\ ~fakeGpio
    /\ Len(op.planned) = 3
    /\ op.fail = 2
    /\ outcome = "OSError"
    /\ bus[1] = op.planned[1]
    /\ bus[2].in = <<>>


----------------------------------------------------------------------------
(* The busy wait, continued *)

(* C21: a wait whose busy signal stays deasserted from some point on
   returns; a step of the wait transfers nothing on the bus, goes on
   waiting exactly when the sample it took reads asserted and returns
   exactly when it reads deasserted, however many samples were taken
   before *)
C21_NoTimeout ==
    /\ (pc = "wait") ~> (pc = "done")
    /\ [][pc = "wait" =>
            /\ bus' = bus
            /\ gpio' = gpio
            /\ pc' = "wait" <=> samples'[Len(samples')] = "LOW"
            /\ pc' = "done" <=> samples'[Len(samples')] = "HIGH"]_vars

\* a wait has sampled the busy pin asserted MaxPolls times and has not
\* returned
C21_Witness ==
    /\ pc = "wait"
    /\ Len(samples) = MaxPolls
    /\ \A i \in 1..Len(samples) : samples[i] = "LOW"
    /\ Len(bus) >= 1

=============================================================================
